---- MODULE Spec2Model ----
(***************************************************************************)
(* BeamSearchTree (src/src/search/methods/tree_search/beam_search.py) as a *)
(* state machine.  A call of simulation_policy / step_save is followed     *)
(* through its blocking points: one expand_node per node of the last       *)
(* level, the reward_fn calls on its successors, the selection that        *)
(* appends the new level, and for step_save the end_timer and the two      *)
(* halves of pickle (open(fname, "wb"), pickle.dump).  Policy, reward_fn,  *)
(* shuffle and the file system are external: their outcomes, exceptions    *)
(* included, are chosen nondeterministically.                              *)
(*                                                                         *)
(* A node (the opaque State object) is the sequence of action ids applied  *)
(* to the root; parent indices are stored 0-based as the code stores them. *)
(***************************************************************************)
EXTENDS Integers, Sequences, FiniteSets, TLC

\* ---------------------------------------------------------------- bounds
MaxActions == 2      \* longest action list Policy.get_actions returns
MaxPrior == 2        \* priors are drawn from 0..MaxPrior
MaxReward == 2       \* rewards are drawn from 1..MaxReward
MaxKeep == 2         \* largest num_keep a tree is constructed with
MaxGenerate == 2     \* largest num_generate a tree is constructed with
MaxLevels == 3       \* calls are made while the tree has fewer levels
MaxRuns == 2         \* the driver is started at most this many times on one file
MaxAttempts == 3     \* largest max_attempts a reward function is given
MaxLimit == 2        \* reward_limit is drawn from 1..MaxLimit
MaxEnergy == 3       \* a query for adsorption energies answers in 0..MaxEnergy
MaxCandidates == 2   \* longest candidates_list of a state
MaxAdsorbates == 2   \* adsorbate symbols of a state
MaxStructures == 2   \* longest list of adslab results / adslabs of one call
MaxBinding == 2      \* adsorption energies are drawn from -MaxBinding..MaxBinding
MaxPreference == 2   \* ads_preferences are drawn from 1..MaxPreference
MaxIdx == 10         \* the indices of the sampled adslabs are 1 and MaxIdx
MaxBatch == 2        \* batch_size is drawn from 1..MaxBatch
MaxReruns == 2       \* create_batches_and_calculate is called this often
MaxSimilarity == 1   \* similarity scores are drawn from 0..MaxSimilarity
MaxSharpness == 2    \* 1 / temperature is drawn from 1..MaxSharpness
MaxQueries == 4      \* calls on a QueryState start while num_queries is below
MaxObjects == 3      \* QueryState objects constructed
MaxHeapQueries == 1  \* queries of one of these objects
MaxMutations == 1    \* appends to list fields of these objects
MaxLatency == 2      \* seconds a request to the language model takes
MaxRetryAfter == 2   \* seconds a rate-limit message asks to wait
MaxItems == 3        \* items of a run
MaxDepth == 2        \* args.depth, the steps of one item
MaxSymbols == 3      \* symbols of one candidate
MaxUpdates == 3      \* update_info calls on one twin

NoTime == 0          \* start_time / end_time = None
Penalty == -10       \* what llm_adsorption_energy_reward returns on giving up
QueryRetries == 3    \* tries of one query_adsorption_energy_list call
PenaltyValue == -10  \* PathReward's default penalty_value
NumAnswers == 3      \* QueryState's default num_answers
MaxTime == 60        \* max_time of run_query's backoff decorator, seconds
DefaultSleep == 60   \* the sleep when the rate-limit message names no time

VARIABLES
    num_generate, num_keep,
    nodes, node_rewards, parent_idx,
    generated_nodes, generated_node_rewards, generated_parent_idx,
    start_time, end_time,
    clock,               \* last value returned by time.time()
    disk,                \* the file at fname
    pc,                  \* position inside the running call, "idle" between calls
    saving,              \* the running (or last) call is step_save
    ret,                 \* how the last call ended: "none", "running", "ok", "raised"
    raised_in,           \* where the last exception came from, "" if none
    i,                   \* enumerate index of simulation_policy's loop (1-based)
    successor_nodes, successor_rewards, succ_parent_idx,
    selected_node_idx, generated_idx,
    actions, priors, action_idxs, next_nodes,   \* expand_node's locals
    dead,                \* no expand_node of this call saw a positive prior
    entry,               \* the six tree sequences when the call was entered
    saves,               \* number of step_save calls that returned
    clean,               \* every call so far was a step_save that returned
    saved,               \* the file as the last step_save that returned left it
    \* scripts/run_icml_queries.py, the block of one item i
    dpc,                 \* position in the block; "off" when no driver runs
    arg_keep, arg_generate, depth,   \* args.num_keep, args.num_generate, args.depth
    continue_searching,
    run_start_time, timing_data,     \* the block's start_time and timing_data
    runs,                \* number of times the driver was started
    resumed,             \* this run took the branch that loads the file
    steps, failures,     \* step_return calls made / exceptions caught in this run
    disk0,               \* the file when this run began
    \* search/reward/llm_reward.py: one call llm_adsorption_energy_reward(s, ...)
    llm,                 \* its arguments, its locals and the state s, as a record;
                         \* None is <<>> and a value v is <<v>>
    \* search/reward/simulation_reward.py and reaction_reward.py
    agg,                 \* one aggregation of adsorption energies into a reward
    sim,                 \* create_batches_and_calculate and the trajectory directory
    \* search/policy/coherent_policy.py
    pol,                 \* one call CoherentPolicy.get_actions(state)
    norm,                \* a CoherentPolicy's MinMaxScaler over its calls
    \* llm/query.py and llm/azure_open_ai_interface.py
    qs,                  \* the QueryState objects and the lists they hold
    rq,                  \* one language-model call and its retries
    \* scripts/run_icml_queries.py and demo_run_queries.py, the loop over items
    items,
    \* search/reward: reduce_candidate_symbols
    sym,
    \* structure_creation/digital_twin.py
    twin                 \* a CatalystDigitalTwin's info and its callers' lists

tree_vars == <<nodes, node_rewards, parent_idx,
               generated_nodes, generated_node_rewards, generated_parent_idx>>
local_vars == <<i, successor_nodes, successor_rewards, succ_parent_idx,
                selected_node_idx, generated_idx,
                actions, priors, action_idxs, next_nodes, dead>>
vars == <<num_generate, num_keep, tree_vars, start_time, end_time, clock, disk,
          pc, saving, ret, raised_in, local_vars, entry, saves, clean, saved>>
driver_vars == <<dpc, arg_keep, arg_generate, depth, continue_searching,
                 run_start_time, timing_data, runs, resumed, steps, failures,
                 disk0>>
rest_vars == <<norm, qs, rq, items, sym, twin>>
other_vars == <<llm, agg, sim, pol, rest_vars>>
all_vars == <<vars, driver_vars, other_vars>>

\* ---------------------------------------------------------------- helpers
Root == <<>>
PriorVals == 0..MaxPrior
RewardVals == 1..MaxReward

Last(s) == s[Len(s)]
Range(s) == {s[k] : k \in 1..Len(s)}
Min(a, b) == IF a < b THEN a ELSE b

\* Python's clamping of a slice bound j for a sequence of length n.
PyIndex(n, j) ==
    IF j < 0 THEN (IF n + j < 0 THEN 0 ELSE n + j)
             ELSE (IF j > n THEN n ELSE j)

\* s[j:]
SliceFrom(s, j) == SubSeq(s, PyIndex(Len(s), j) + 1, Len(s))

\* s[:j]
SliceTo(s, j) == SubSeq(s, 1, PyIndex(Len(s), j))

\* random.shuffle: every ordering of the index set S.
RECURSIVE Orderings(_)
Orderings(S) ==
    IF S = {} THEN {<<>>}
    ELSE UNION {{<<x>> \o t : t \in Orderings(S \ {x})} : x \in S}

\* np.argsort(s): the index sequences that list s in ascending order.  The
\* default kind (quicksort) is not stable, so the order among equal keys is
\* any.  Indices are 1-based here, 0-based in numpy.
RECURSIVE AscendingFrom(_, _)
AscendingFrom(s, S) ==
    IF S = {} THEN {<<>>}
    ELSE LET lows == {x \in S : \A y \in S : s[x] <= s[y]}
         IN UNION {{<<x>> \o t : t \in AscendingFrom(s, S \ {x})} : x \in lows}

ArgSorts(s) == AscendingFrom(s, 1..Len(s))

\* Policy.get_actions(node): any list of up to MaxActions catalogue actions,
\* each with a prior.
PolicyOutputs ==
    UNION {{[actions |-> [k \in 1..n |-> k], priors |-> p] :
                p \in [1..n -> PriorVals]} : n \in 0..MaxActions}

\* a(node): the successor state of node under action a.
Apply(a, node) == Append(node, a)

Tree ==
    [nodes |-> nodes, node_rewards |-> node_rewards, parent_idx |-> parent_idx,
     generated_nodes |-> generated_nodes,
     generated_node_rewards |-> generated_node_rewards,
     generated_parent_idx |-> generated_parent_idx]

\* ---------------------------------------------------------------- __init__
\* The level 0 of the three generated_* lists: [[]].
GeneratedSeed == <<(<<>>)>>

InitTree(g, k) ==
    /\ num_generate = g
    /\ num_keep = k
    /\ nodes = <<(<<Root>>)>>
    /\ parent_idx = <<(<<-1>>)>>
    /\ node_rewards = <<(<<0>>)>>
    /\ generated_nodes = GeneratedSeed
    /\ generated_node_rewards = GeneratedSeed
    /\ generated_parent_idx = GeneratedSeed
    /\ start_time = NoTime
    /\ end_time = NoTime
    /\ clock = 0
    /\ disk = [kind |-> "absent"]
    /\ pc = "idle"
    /\ saving = FALSE
    /\ ret = "none"
    /\ raised_in = ""
    /\ i = 1
    /\ successor_nodes = <<>>
    /\ successor_rewards = <<>>
    /\ succ_parent_idx = <<>>
    /\ selected_node_idx = <<>>
    /\ generated_idx = <<>>
    /\ actions = <<>>
    /\ priors = <<>>
    /\ action_idxs = <<>>
    /\ next_nodes = <<>>
    /\ dead = TRUE
    /\ entry = Tree
    /\ saves = 0
    /\ clean = TRUE
    /\ saved = [kind |-> "absent"]

\* __init__ stores num_generate and num_keep as given, 0 included: only one
\* of its callers (get_search_method in scripts/run_icml_queries.py) asserts
\* that they are positive.
\* No driver: the tree is used directly, as scripts/demo_run_queries.py does.
DriverOff ==
    /\ dpc = "off"
    /\ arg_keep = 0
    /\ arg_generate = 0
    /\ depth = 0
    /\ continue_searching = FALSE
    /\ run_start_time = NoTime
    /\ timing_data = <<>>
    /\ runs = 0
    /\ resumed = FALSE
    /\ steps = 0
    /\ failures = 0
    /\ disk0 = [kind |-> "absent"]

\* No call of llm_adsorption_energy_reward is followed.
LlmOff ==
    llm = [pc |-> "off", reward_limit |-> 0, max_attempts |-> 0,
           primary_reward |-> TRUE, e |-> 0, attempts |-> 0, retries |-> 0,
           reward |-> <<>>, info |-> {}, ret |-> <<>>, raised |-> FALSE,
           history |-> <<>>]

\* No reward aggregation, no batch calculation and no get_actions call is
\* followed.
AggOff == agg = [pc |-> "off"]
SimOff == sim = [pc |-> "off"]
PolOff == pol = [pc |-> "off"]
NormOff == norm = [pc |-> "off"]
QsOff == qs = [pc |-> "off"]
RqOff == rq = [pc |-> "off"]
ItemsOff == items = [pc |-> "off"]
SymOff == sym = [pc |-> "off"]
TwinOff == twin = [pc |-> "off"]
RestOff == NormOff /\ QsOff /\ RqOff /\ ItemsOff /\ SymOff /\ TwinOff

Init ==
    /\ RestOff
    /\ \E g \in 0..MaxGenerate, k \in 0..MaxKeep : InitTree(g, k)
    /\ DriverOff
    /\ LlmOff
    /\ AggOff
    /\ SimOff
    /\ PolOff

\* ---------------------------------------------------------------- timers
\* start_timer() as the demo driver calls it, once, right after construction.
StartTimer ==
    /\ pc = "idle"
    /\ ret = "none"
    /\ start_time = NoTime
    /\ clock' = clock + 1
    /\ start_time' = clock + 1
    /\ UNCHANGED <<num_generate, num_keep, tree_vars, end_time, disk, pc, saving,
                   ret, raised_in, local_vars, entry, saves, clean>>

\* ---------------------------------------------------------------- calls
\* Entry of simulation_policy: the timer check and the empty accumulators.
Enter(save) ==
    /\ pc = "idle"
    /\ Len(nodes) < MaxLevels
    /\ saving' = save
    /\ ret' = "running"
    /\ raised_in' = ""
    /\ IF start_time = NoTime
         THEN clock' = clock + 1 /\ start_time' = clock + 1
         ELSE UNCHANGED <<clock, start_time>>
    /\ i' = 1
    /\ successor_nodes' = <<>>
    /\ successor_rewards' = <<>>
    /\ succ_parent_idx' = <<>>
    /\ selected_node_idx' = <<>>
    /\ generated_idx' = <<>>
    /\ actions' = <<>>
    /\ priors' = <<>>
    /\ action_idxs' = <<>>
    /\ next_nodes' = <<>>
    /\ dead' = TRUE
    /\ entry' = Tree
    /\ pc' = IF Len(Last(nodes)) = 0 THEN "select" ELSE "expand"
    /\ UNCHANGED <<num_generate, num_keep, tree_vars, end_time, disk, saves>>

\* A caller invokes simulation_policy() directly.
CallSimulationPolicy ==
    /\ Enter(FALSE)
    /\ clean' = FALSE

\* A caller invokes step_save(fname).
CallStepSave ==
    /\ Enter(TRUE)
    /\ UNCHANGED clean

\* An exception leaves the call: nothing after the raising line runs.
Raise(where) ==
    /\ pc' = "idle"
    /\ ret' = "raised"
    /\ raised_in' = where
    /\ clean' = FALSE

\* ---------------------------------------------------------------- expand_node
\* Mutant of TopByPrior: the slice taken from the wrong end, [:num_generate].
TopByPriorHead(order, g) == SliceTo(order, g)

\* The top num_generate positions of the shuffled priors, ascending:
\* np.argsort(priors)[-num_generate:].
TopByPrior(order, g) == SliceFrom(order, -g)

\* Mutant of Applied: the test priors[i] >= 0.
AppliedNonNegative(idxs, pri) == SelectSeq(idxs, LAMBDA k : pri[k] >= 0)

\* The positions whose action is applied: if priors[i] > 0.
Applied(idxs, pri) == SelectSeq(idxs, LAMBDA k : pri[k] > 0)

ExpandNode ==
    /\ pc = "expand"
    /\ \/ /\ Raise("policy")
          /\ UNCHANGED <<local_vars>>
       \/ \E out \in PolicyOutputs :
          \E shuffle_idx \in Orderings(1..Len(out.priors)) :
             LET pri == [k \in 1..Len(shuffle_idx) |-> out.priors[shuffle_idx[k]]]
                 act == [k \in 1..Len(shuffle_idx) |-> out.actions[shuffle_idx[k]]]
             IN \E order \in ArgSorts(pri) :
                  LET idxs == TopByPrior(order, num_generate)
                      app == Applied(idxs, pri)
                  IN /\ priors' = pri
                     /\ actions' = act
                     /\ action_idxs' = idxs
                     /\ next_nodes' =
                            [k \in 1..Len(app) |-> Apply(act[app[k]], Last(nodes)[i])]
                     /\ dead' = (dead /\ \A k \in 1..Len(pri) : pri[k] <= 0)
                     /\ pc' = "reward"
                     /\ UNCHANGED <<ret, raised_in, clean, i, successor_nodes,
                                    successor_rewards, succ_parent_idx,
                                    selected_node_idx, generated_idx>>
    /\ UNCHANGED <<num_generate, num_keep, tree_vars, start_time, end_time, clock,
                   disk, saving, entry, saves>>

\* ---------------------------------------------------------------- rewards
\* Mutant of ParentIndex: enumerate(nodes, 1).
ParentIndexFromOne(j) == j

\* enumerate(nodes) numbers the j-th node of the level j - 1.
ParentIndex(j) == j - 1

\* Mutant of Accumulate: the rewards are also stored in the tree at once.
AccumulateIntoTree(rewards) ==
    /\ successor_nodes' = successor_nodes \o next_nodes
    /\ successor_rewards' = successor_rewards \o rewards
    /\ succ_parent_idx' =
           succ_parent_idx \o [k \in 1..Len(next_nodes) |-> i - 1]
    /\ node_rewards' = Append(node_rewards, rewards)
    /\ UNCHANGED <<nodes, parent_idx, generated_nodes, generated_node_rewards,
                   generated_parent_idx>>

\* successor_nodes += next_nodes; successor_rewards += rewards;
\* parent_idx += [i] * len(next_nodes).  The tree itself is not touched.
Accumulate(rewards) ==
    /\ successor_nodes' = successor_nodes \o next_nodes
    /\ successor_rewards' = successor_rewards \o rewards
    /\ succ_parent_idx' =
           succ_parent_idx \o [k \in 1..Len(next_nodes) |-> ParentIndex(i)]
    /\ UNCHANGED tree_vars

\* rewards = [reward_fn(n) for n in next_nodes] and the three accumulations.
\* expand_node's frame is gone once the iteration ends: its locals are emptied.
RewardNodes ==
    /\ pc = "reward"
    /\ \/ /\ Len(next_nodes) > 0
          /\ Raise("reward")
          /\ UNCHANGED <<local_vars, tree_vars>>
       \/ \E rewards \in [1..Len(next_nodes) -> RewardVals] :
            /\ Accumulate(rewards)
            /\ i' = i + 1
            /\ pc' = IF i = Len(Last(nodes)) THEN "select" ELSE "expand"
            /\ actions' = <<>>
            /\ priors' = <<>>
            /\ action_idxs' = <<>>
            /\ next_nodes' = <<>>
            /\ UNCHANGED <<ret, raised_in, clean, selected_node_idx, generated_idx,
                           dead>>
    /\ UNCHANGED <<num_generate, num_keep, start_time, end_time, clock,
                   disk, saving, entry, saves>>

\* ---------------------------------------------------------------- selection
\* Mutant of SelectedIdx: the lowest rewards are kept, [:num_keep].
SelectedIdxLowest(order, k) == SliceTo(order, k)

\* np.argsort(successor_rewards)[-num_keep:]
SelectedIdx(order, k) == SliceFrom(order, -k)

\* Mutant of GeneratedIdx: the sign of the bound is lost, [:num_keep].
GeneratedIdxNoSign(order, k) == SliceTo(order, k)

\* np.argsort(successor_rewards)[:-num_keep]
GeneratedIdx(order, k) == SliceTo(order, -k)

\* [s[i] for i in idxs]
Pick(s, idxs) == [k \in 1..Len(idxs) |-> s[idxs[k]]]

\* Mutant of SelectedParents: the first selected index is skipped.
SelectedParentsShort(sel) == Pick(succ_parent_idx, SliceFrom(sel, 1))

\* selected_parents = [parent_idx[i] for i in selected_node_idx]
SelectedParents(sel) == Pick(succ_parent_idx, sel)

\* Mutant of AppendLevel: the last level is overwritten, self.<list>[-1] = level.
OverwriteLast(levels, level) == [levels EXCEPT ![Len(levels)] = level]

\* self.<list>.append(level)
AppendLevel(levels, level) == Append(levels, level)

Select ==
    /\ pc = "select"
    /\ \E order \in ArgSorts(successor_rewards) :
         LET sel == SelectedIdx(order, num_keep)
             gen == GeneratedIdx(order, num_keep)
         IN /\ selected_node_idx' = sel
            /\ generated_idx' = gen
            /\ nodes' = AppendLevel(nodes, Pick(successor_nodes, sel))
            /\ node_rewards' = AppendLevel(node_rewards, Pick(successor_rewards, sel))
            /\ parent_idx' = AppendLevel(parent_idx, SelectedParents(sel))
            /\ generated_nodes' =
                   AppendLevel(generated_nodes, Pick(successor_nodes, gen))
            /\ generated_node_rewards' =
                   AppendLevel(generated_node_rewards, Pick(successor_rewards, gen))
            /\ generated_parent_idx' =
                   AppendLevel(generated_parent_idx, Pick(succ_parent_idx, gen))
    /\ pc' = IF saving THEN "end_timer" ELSE "idle"
    /\ ret' = IF saving THEN ret ELSE "ok"
    /\ UNCHANGED <<num_generate, num_keep, start_time, end_time, clock, disk, saving,
                   raised_in, i, successor_nodes, successor_rewards, succ_parent_idx,
                   actions, priors, action_idxs, next_nodes, dead, entry, saves,
                   clean>>

\* ---------------------------------------------------------------- step_save
EndTimer ==
    /\ pc = "end_timer"
    /\ clock' = clock + 1
    /\ end_time' = clock + 1
    /\ pc' = "open"
    /\ UNCHANGED <<num_generate, num_keep, tree_vars, start_time, disk, saving, ret,
                   raised_in, local_vars, entry, saves, clean>>

\* vars(n): the attribute mapping of a node.
NodeVars(n) == [applied |-> n]

\* [[vars(n) for n in list_nodes] for list_nodes in levels]
LevelsVars(levels) ==
    [L \in 1..Len(levels) |->
        [a \in 1..Len(levels[L]) |-> NodeVars(levels[L][a])]]

\* Mutant of ProcessedData: the retained nodes are taken from generated_nodes
\* and the rewards are left out of step with them.
ProcessedDataGenerated ==
    [nodes |-> LevelsVars(generated_nodes), node_rewards |-> node_rewards,
     parent_idx |-> parent_idx,
     generated_nodes |-> LevelsVars(generated_nodes),
     generated_node_rewards |-> generated_node_rewards,
     generated_parent_idx |-> generated_parent_idx,
     num_generate |-> num_generate, num_keep |-> num_keep,
     start_time |-> start_time, end_time |-> end_time]

\* get_processed_data()
ProcessedData ==
    [nodes |-> LevelsVars(nodes), node_rewards |-> node_rewards,
     parent_idx |-> parent_idx,
     generated_nodes |-> LevelsVars(generated_nodes),
     generated_node_rewards |-> generated_node_rewards,
     generated_parent_idx |-> generated_parent_idx,
     num_generate |-> num_generate, num_keep |-> num_keep,
     start_time |-> start_time, end_time |-> end_time]

\* open(fname, "wb") creates or truncates the file, or fails and leaves it.
PickleOpen ==
    /\ pc = "open"
    /\ \/ /\ disk' = [kind |-> "truncated"]
          /\ pc' = "dump"
          /\ UNCHANGED <<ret, raised_in, clean>>
       \/ /\ Raise("open")
          /\ UNCHANGED disk
    /\ UNCHANGED <<num_generate, num_keep, tree_vars, start_time, end_time, clock,
                   saving, local_vars, entry, saves>>

\* pickle.dump(pickle_data, f) writes the whole record, or raises part-way.
PickleDump ==
    /\ pc = "dump"
    /\ \/ /\ disk' = [kind |-> "tree", data |-> ProcessedData]
          /\ pc' = "idle"
          /\ ret' = "ok"
          /\ saves' = saves + 1
          /\ saved' = disk'
          /\ UNCHANGED <<raised_in, clean>>
       \/ /\ Raise("dump")
          /\ UNCHANGED <<disk, saves, saved>>
    /\ UNCHANGED <<num_generate, num_keep, tree_vars, start_time, end_time, clock,
                   saving, local_vars, entry>>

\* ---------------------------------------------------------------- specification
Next ==
    \/ StartTimer /\ UNCHANGED <<saved, driver_vars, other_vars>>
    \/ CallSimulationPolicy /\ UNCHANGED <<saved, driver_vars, other_vars>>
    \/ CallStepSave /\ UNCHANGED <<saved, driver_vars, other_vars>>
    \/ ExpandNode /\ UNCHANGED <<saved, driver_vars, other_vars>>
    \/ RewardNodes /\ UNCHANGED <<saved, driver_vars, other_vars>>
    \/ Select /\ UNCHANGED <<saved, driver_vars, other_vars>>
    \/ EndTimer /\ UNCHANGED <<saved, driver_vars, other_vars>>
    \/ PickleOpen /\ UNCHANGED <<saved, driver_vars, other_vars>>
    \/ PickleDump /\ UNCHANGED <<driver_vars, other_vars>>

Spec == Init /\ [][Next]_all_vars

\* ---------------------------------------------------------------- driver
\* scripts/run_icml_queries.py, the block run for one item i: the tree is
\* loaded from fname or built, then stepped until it has args.depth levels.
\* The file holds JSON here: "absent", "truncated" (size 0), "partial"
\* (an interrupted json.dump) or "json".

\* node_constructor (ReasonerState.from_dict): the node of an attribute mapping.
NodeConstructor(d) == d.applied

LevelsNodes(levels) ==
    [L \in 1..Len(levels) |->
        [a \in 1..Len(levels[L]) |-> NodeConstructor(levels[L][a])]]

\* BeamSearchTree.from_data(tree_data, policy, reward_fn, node_constructor):
\* the tree of a serialized structure.
FromData(data) ==
    [nodes |-> LevelsNodes(data.nodes), node_rewards |-> data.node_rewards,
     parent_idx |-> data.parent_idx,
     generated_nodes |-> LevelsNodes(data.generated_nodes),
     generated_node_rewards |-> data.generated_node_rewards,
     generated_parent_idx |-> data.generated_parent_idx,
     num_generate |-> data.num_generate, num_keep |-> data.num_keep,
     start_time |-> data.start_time, end_time |-> data.end_time]

\* len(search): the number of levels.
TreeLen == Len(nodes)

\* The locals of simulation_policy and the call bookkeeping of a tree on
\* which no call was made yet.
FreshCalls ==
    /\ pc' = "idle"
    /\ saving' = FALSE
    /\ ret' = "none"
    /\ raised_in' = ""
    /\ i' = 1
    /\ successor_nodes' = <<>>
    /\ successor_rewards' = <<>>
    /\ succ_parent_idx' = <<>>
    /\ selected_node_idx' = <<>>
    /\ generated_idx' = <<>>
    /\ actions' = <<>>
    /\ priors' = <<>>
    /\ action_idxs' = <<>>
    /\ next_nodes' = <<>>
    /\ dead' = TRUE

\* start_time = time.time(); timing_data = [start_time];
\* continue_searching = True   (lines 244-246)
EnterLoop ==
    /\ clock' = clock + 1
    /\ run_start_time' = clock + 1
    /\ timing_data' = <<clock + 1>>
    /\ continue_searching' = TRUE
    /\ dpc' = "loop"

\* An exception nothing catches ends the program.
Crash ==
    /\ dpc' = "crashed"
    /\ UNCHANGED <<clock, run_start_time, timing_data, continue_searching>>

\* Mutant of ParametersMatch: the assertion on num_generate is left out.
ParametersMatchKeep(t) == arg_keep = t.num_keep

\* Lines 234-240: args.num_keep == search.num_keep and
\* args.num_generate == search.num_generate.
ParametersMatch(t) == arg_keep = t.num_keep /\ arg_generate = t.num_generate

\* Lines 223-240: the file exists and is not empty.  json.load, from_data and
\* the two assertions on num_keep and num_generate.
DriverResume ==
    /\ dpc = "start"
    /\ disk.kind = "json"
    /\ LET t == FromData(disk.data)
       IN /\ nodes' = t.nodes
          /\ node_rewards' = t.node_rewards
          /\ parent_idx' = t.parent_idx
          /\ generated_nodes' = t.generated_nodes
          /\ generated_node_rewards' = t.generated_node_rewards
          /\ generated_parent_idx' = t.generated_parent_idx
          /\ num_generate' = t.num_generate
          /\ num_keep' = t.num_keep
          /\ start_time' = t.start_time
          /\ end_time' = t.end_time
          /\ IF ParametersMatch(t)
               THEN EnterLoop
               ELSE Crash
    /\ FreshCalls
    /\ entry' = Tree'
    /\ resumed' = TRUE
    /\ UNCHANGED <<disk, saves, clean, saved, arg_keep, arg_generate, depth, runs,
                   steps, failures, disk0>>

\* Line 227: json.load raises on a file an interrupted dump left.
DriverLoadFails ==
    /\ dpc = "start"
    /\ disk.kind = "partial"
    /\ Crash
    /\ UNCHANGED <<num_generate, num_keep, tree_vars, start_time, end_time, disk,
                   pc, saving, ret, raised_in, local_vars, entry, saves, clean,
                   saved, arg_keep, arg_generate, depth, runs, resumed, steps,
                   failures, disk0>>

\* Line 242: get_search_method, its two assertions and BeamSearchTree(...).
DriverFresh ==
    /\ dpc = "start"
    /\ disk.kind \in {"absent", "truncated"}
    /\ IF arg_keep > 0 /\ arg_generate > 0
         THEN /\ num_generate' = arg_generate
              /\ num_keep' = arg_keep
              /\ nodes' = <<(<<Root>>)>>
              /\ parent_idx' = <<(<<-1>>)>>
              /\ node_rewards' = <<(<<0>>)>>
              /\ generated_nodes' = GeneratedSeed
              /\ generated_node_rewards' = GeneratedSeed
              /\ generated_parent_idx' = GeneratedSeed
              /\ start_time' = NoTime
              /\ end_time' = NoTime
              /\ FreshCalls
              /\ entry' = Tree'
              /\ EnterLoop
         ELSE /\ Crash
              /\ UNCHANGED <<num_generate, num_keep, tree_vars, start_time,
                             end_time, pc, saving, ret, raised_in, local_vars,
                             entry>>
    /\ UNCHANGED <<disk, saves, clean, saved, arg_keep, arg_generate, depth, runs,
                   resumed, steps, failures, disk0>>

\* Lines 247-249: the loop test holds and search.step_return() is called.
DriverStep ==
    /\ dpc = "loop"
    /\ TreeLen < depth
    /\ continue_searching
    /\ CallSimulationPolicy
    /\ dpc' = "step"
    /\ steps' = steps + 1
    /\ UNCHANGED <<saved, arg_keep, arg_generate, depth, continue_searching,
                   run_start_time, timing_data, runs, resumed, failures, disk0>>

\* Line 247: the loop test fails and the block of the item ends.
DriverExit ==
    /\ dpc = "loop"
    /\ ~(TreeLen < depth /\ continue_searching)
    /\ dpc' = "done"
    /\ UNCHANGED <<vars, arg_keep, arg_generate, depth, continue_searching,
                   run_start_time, timing_data, runs, resumed, steps, failures,
                   disk0>>

\* The steps of step_return's simulation_policy.
DriverSearch ==
    /\ dpc = "step"
    /\ ExpandNode \/ RewardNodes \/ Select
    /\ UNCHANGED <<saved, driver_vars>>

\* Mutant of Except: the failure is logged and the loop goes on.
ExceptKeepsSearching ==
    /\ continue_searching' = continue_searching
    /\ failures' = failures + 1
    /\ dpc' = "loop"

\* Lines 257-260: the except branch.
Except ==
    /\ continue_searching' = FALSE
    /\ failures' = failures + 1
    /\ dpc' = "loop"

\* step_return raised.
DriverStepRaised ==
    /\ dpc = "step"
    /\ pc = "idle"
    /\ ret = "raised"
    /\ Except
    /\ UNCHANGED <<vars, arg_keep, arg_generate, depth, run_start_time,
                   timing_data, runs, resumed, steps, disk0>>

\* Lines 250-252: step_return returned; end_time = time.time(), the append to
\* timing_data and open(fname, "w"), which truncates the file or raises.
DriverOpen ==
    /\ dpc = "step"
    /\ pc = "idle"
    /\ ret = "ok"
    /\ clock' = clock + 1
    /\ timing_data' = Append(timing_data, clock + 1 - Last(timing_data))
    /\ \/ /\ disk' = [kind |-> "truncated"]
          /\ dpc' = "dump"
          /\ UNCHANGED <<continue_searching, failures>>
       \/ /\ Except
          /\ UNCHANGED disk
    /\ UNCHANGED <<num_generate, num_keep, tree_vars, start_time, end_time, pc,
                   saving, ret, raised_in, local_vars, entry, saves, clean, saved,
                   arg_keep, arg_generate, depth, run_start_time, runs, resumed,
                   steps, disk0>>

\* What lines 253-256 write: the data of step_return with total_time and
\* step_times.
JsonData ==
    ProcessedData @@
        [total_time |-> clock - run_start_time, step_times |-> timing_data]

\* Lines 253-256: json.dump writes the whole structure, or raises after it
\* wrote nothing or a part of it.
DriverDump ==
    /\ dpc = "dump"
    /\ \/ /\ disk' = [kind |-> "json", data |-> JsonData]
          /\ saved' = disk'
          /\ saves' = saves + 1
          /\ dpc' = "loop"
          /\ UNCHANGED <<continue_searching, failures>>
       \/ /\ \E k \in {"truncated", "partial"} : disk' = [kind |-> k]
          /\ Except
          /\ UNCHANGED <<saved, saves>>
    /\ UNCHANGED <<num_generate, num_keep, tree_vars, start_time, end_time, clock,
                   pc, saving, ret, raised_in, local_vars, entry, clean,
                   arg_keep, arg_generate, depth, run_start_time, timing_data,
                   runs, resumed, steps, disk0>>

\* The program is started (again) on the same file, with any arguments: a
\* new process, which has no tree until line 228 or 242 makes one.
DriverStart ==
    /\ dpc \in {"done", "crashed"}
    /\ runs < MaxRuns
    /\ runs' = runs + 1
    /\ dpc' = "start"
    /\ arg_keep' \in 0..MaxKeep
    /\ arg_generate' \in 0..MaxGenerate
    /\ depth' \in 1..MaxLevels
    /\ resumed' = FALSE
    /\ steps' = 0
    /\ failures' = 0
    /\ disk0' = disk
    /\ continue_searching' = FALSE
    /\ run_start_time' = NoTime
    /\ timing_data' = <<>>
    /\ num_generate' = 0
    /\ num_keep' = 0
    /\ nodes' = <<(<<Root>>)>>
    /\ parent_idx' = <<(<<-1>>)>>
    /\ node_rewards' = <<(<<0>>)>>
    /\ generated_nodes' = GeneratedSeed
    /\ generated_node_rewards' = GeneratedSeed
    /\ generated_parent_idx' = GeneratedSeed
    /\ start_time' = NoTime
    /\ end_time' = NoTime
    /\ FreshCalls
    /\ entry' = Tree'
    /\ UNCHANGED <<clock, disk, saves, clean, saved>>

InitDriver ==
    /\ RestOff
    /\ InitTree(0, 0)
    /\ dpc = "start"
    /\ arg_keep \in 0..MaxKeep
    /\ arg_generate \in 0..MaxGenerate
    /\ depth \in 1..MaxLevels
    /\ continue_searching = FALSE
    /\ run_start_time = NoTime
    /\ timing_data = <<>>
    /\ runs = 1
    /\ resumed = FALSE
    /\ steps = 0
    /\ failures = 0
    /\ disk0 = [kind |-> "absent"]
    /\ LlmOff
    /\ AggOff
    /\ SimOff
    /\ PolOff

NextDriver ==
    \/ DriverResume /\ UNCHANGED other_vars
    \/ DriverLoadFails /\ UNCHANGED other_vars
    \/ DriverFresh /\ UNCHANGED other_vars
    \/ DriverStep /\ UNCHANGED other_vars
    \/ DriverExit /\ UNCHANGED other_vars
    \/ DriverSearch /\ UNCHANGED other_vars
    \/ DriverStepRaised /\ UNCHANGED other_vars
    \/ DriverOpen /\ UNCHANGED other_vars
    \/ DriverDump /\ UNCHANGED other_vars
    \/ DriverStart /\ UNCHANGED other_vars

SpecDriver == InitDriver /\ [][NextDriver]_all_vars

\* The driver is sequential code whose calls return or raise: a step that
\* can be taken is taken.
SpecDriverFair == SpecDriver /\ WF_all_vars(NextDriver)

\* ---------------------------------------------------------------- llm reward
\* search/reward/llm_reward.py and QueryState.query_adsorption_energy_list
\* (llm/query.py).  The language model is external: a try of a query gives a
\* number or fails to parse.  The query counter of s is not followed.

EnergyVals == 0..MaxEnergy

\* s.set_reward(reward, info_field=field): sets the reward and notes it in
\* the info under the field, when one is given.
SetReward(r, field) ==
    [llm EXCEPT !.reward = <<r>>,
                !.info = IF field = "" THEN @ ELSE @ \cup {field}]

\* Lines 18-19: e = reward_limit + 1; attempts = 0.
LlmCall ==
    /\ llm.pc = "idle"
    /\ llm' = [llm EXCEPT !.pc = "test", !.e = llm.reward_limit + 1,
                          !.attempts = 0]

\* Line 20: while e > reward_limit and attempts < max_attempts
KeepsQuerying == llm.e > llm.reward_limit /\ llm.attempts < llm.max_attempts

LlmTest ==
    /\ llm.pc = "test"
    /\ llm' = IF KeepsQuerying
                THEN [llm EXCEPT !.pc = "query", !.retries = 0]
                ELSE [llm EXCEPT !.pc = "finish"]

\* query.py lines 121-150: one try of query_adsorption_energy_list.  It
\* returns the mean output (line 21-22 then store it and count the attempt),
\* or an exception takes it to line 151.
QueryTry ==
    /\ llm.pc = "query"
    /\ llm.retries < QueryRetries
    /\ \/ \E v \in EnergyVals :
            llm' = [llm EXCEPT !.pc = "test", !.retries = @ + 1, !.e = v,
                              !.attempts = @ + 1,
                              !.history = Append(@, <<v>>)]
       \/ llm' = [llm EXCEPT !.pc = "except", !.retries = @ + 1]

\* An exception leaves llm_adsorption_energy_reward, which catches none.
LlmRaises ==
    [llm EXCEPT !.pc = "done", !.raised = TRUE, !.history = Append(@, <<>>)]

\* query.py lines 151-155: the except branch calls self.query(), which asks
\* the model again and may raise itself; after the last try, raise error.
QueryExcept ==
    /\ llm.pc = "except"
    /\ \/ /\ llm.retries < QueryRetries
          /\ llm' = [llm EXCEPT !.pc = "query"]
       \/ /\ llm.retries = QueryRetries
          /\ llm' = LlmRaises
       \/ llm' = LlmRaises

\* Line 24: if attempts == max_attempts
GivesUp == llm.attempts = llm.max_attempts

\* Lines 24-33.
LlmFinish ==
    /\ llm.pc = "finish"
    /\ llm' = IF GivesUp
                THEN [SetReward(Penalty, "") EXCEPT
                         !.pc = "done", !.ret = <<Penalty>>]
                ELSE [SetReward(llm.e, "llm-reward") EXCEPT
                         !.pc = "done", !.ret = <<llm.e>>]

InitLlm ==
    /\ RestOff
    /\ InitTree(0, 0)
    /\ DriverOff
    /\ \E limit \in 1..MaxLimit, m \in 0..MaxAttempts, primary \in BOOLEAN :
          llm = [pc |-> "idle", reward_limit |-> limit, max_attempts |-> m,
                 primary_reward |-> primary, e |-> 0, attempts |-> 0,
                 retries |-> 0, reward |-> <<>>, info |-> {}, ret |-> <<>>,
                 raised |-> FALSE, history |-> <<>>]
    /\ AggOff
    /\ SimOff
    /\ PolOff

llm_frame == <<vars, driver_vars, agg, sim, pol, rest_vars>>

NextLlm ==
    \/ LlmCall /\ UNCHANGED llm_frame
    \/ LlmTest /\ UNCHANGED llm_frame
    \/ QueryTry /\ UNCHANGED llm_frame
    \/ QueryExcept /\ UNCHANGED llm_frame
    \/ LlmFinish /\ UNCHANGED llm_frame

SpecLlm == InitLlm /\ [][NextLlm]_all_vars

\* ---------------------------------------------------------------- reward aggregation
(***************************************************************************)
(* The aggregation of adsorption energies into one reward, as the two      *)
(* reward classes do it: StructureReward.__call__                          *)
(* (search/reward/simulation_reward.py) over (idx, name, energy) results   *)
(* and PathReward.parse_adsorption_energies (search/reward/                *)
(* reaction_reward.py) over (idx, name, energy, valid_structure) results.  *)
(* A result is the record [cand, ads, energy, valid]: cand is              *)
(* name_candidate_mapping[name], ads is name.split("_")[-1], and valid is  *)
(* whether the relaxed structure is a valid one, which only PathReward is  *)
(* told.  reward_values is a function from the candidates it has as keys   *)
(* to the candidate's dict, a sequence of [ads, vals] in insertion order.  *)
(* np.mean is exact: a mean is the fraction <<sum, count>>.                *)
(***************************************************************************)
Candidates == 1..MaxCandidates
Adsorbates == 1..MaxAdsorbates
AdsEnergies == ((-MaxBinding)..MaxBinding) \ {0}

Abs(x) == IF x < 0 THEN -x ELSE x

RECURSIVE Pow(_, _)
Pow(x, p) == IF p = 0 THEN 1 ELSE x * Pow(x, p - 1)

\* min(vals) of a non-empty list
SeqMin(vals) ==
    CHOOSE m \in {vals[j] : j \in 1..Len(vals)} :
        \A j \in 1..Len(vals) : m <= vals[j]

\* fractions <<numerator, denominator>> with a positive denominator
RatAdd(a, b) == <<a[1] * b[2] + b[1] * a[2], a[2] * b[2]>>
RatEq(a, b) == a[1] * b[2] = b[1] * a[2]

RECURSIVE RatSum(_)
RatSum(xs) == IF xs = <<>> THEN <<0, 1>> ELSE RatAdd(Head(xs), RatSum(Tail(xs)))

\* np.mean of a list of numbers: nan for the empty list
NpMean(xs) ==
    IF xs = <<>>
    THEN [kind |-> "nan"]
    ELSE [kind |-> "value",
          value |-> <<RatSum(xs)[1], RatSum(xs)[2] * Len(xs)>>]

\* ads in reward_values[cand].keys()
HasAds(entries, a) == \E j \in 1..Len(entries) : entries[j].ads = a

\* reward_values[cand][ads] += [energy]
AddEnergy(entries, a, e) ==
    [j \in 1..Len(entries) |->
        IF entries[j].ads = a
        THEN [entries[j] EXCEPT !.vals = Append(@, e)]
        ELSE entries[j]]

\* reward_values[cand] = {ads: vals}
NewCandidate(rv, c, a, vals) ==
    [k \in DOMAIN rv \cup {c} |->
        IF k = c THEN <<[ads |-> a, vals |-> vals]>> ELSE rv[k]]

\* One iteration of StructureReward.__call__'s loop over the results.
StructureStore(rv, t) ==
    IF t.cand \in DOMAIN rv
    THEN IF HasAds(rv[t.cand], t.ads)
         THEN [rv EXCEPT ![t.cand] = AddEnergy(@, t.ads, t.energy)]
         ELSE [rv EXCEPT ![t.cand] =
                  Append(@, [ads |-> t.ads, vals |-> <<t.energy>>])]
    ELSE NewCandidate(rv, t.cand, t.ads, <<t.energy>>)

\* reward_values[cand][ads] += [energy] on a dict without the key ads
PathKeyError(rv, t) ==
    /\ t.valid
    /\ t.cand \in DOMAIN rv
    /\ ~HasAds(rv[t.cand], t.ads)

\* One iteration of parse_adsorption_energies' loop over the results, when
\* it raises no KeyError.
PathStore(rv, t) ==
    IF t.valid
    THEN IF t.cand \in DOMAIN rv
         THEN [rv EXCEPT ![t.cand] = AddEnergy(@, t.ads, t.energy)]
         ELSE NewCandidate(rv, t.cand, t.ads, <<t.energy>>)
    ELSE IF t.cand \notin DOMAIN rv
         THEN NewCandidate(rv, t.cand, t.ads, <<>>)
         ELSE rv

\* The candidate's term of StructureReward: the mean over the candidate's
\* adsorbates of abs(min(energies)) ** ads_preferences[i], i the position of
\* the adsorbate in the candidate's dict.
CandidateMean(entries, prefs) ==
    NpMean([j \in 1..Len(entries) |->
               <<Pow(Abs(SeqMin(entries[j].vals)), prefs[j]), 1>>])

\* The loop over the results is left for the loop over the candidates.
AfterResult(k) == IF k > Len(agg.input) THEN "aggregate" ELSE "parse"

ParseStructure ==
    /\ agg.pc = "parse"
    /\ agg.impl = "structure"
    /\ agg' = [agg EXCEPT
                 !.reward_values = StructureStore(@, agg.input[agg.k]),
                 !.k = @ + 1,
                 !.pc = AfterResult(agg.k + 1)]

ParsePath ==
    /\ agg.pc = "parse"
    /\ agg.impl = "path"
    /\ IF PathKeyError(agg.reward_values, agg.input[agg.k])
       THEN agg' = [agg EXCEPT !.pc = "done",
                               !.out = [kind |-> "raise"]]
       ELSE agg' = [agg EXCEPT
                      !.reward_values = PathStore(@, agg.input[agg.k]),
                      !.k = @ + 1,
                      !.pc = AfterResult(agg.k + 1)]

\* One iteration of StructureReward's loop over candidates_list: a candidate
\* without results is printed and adds nothing to rewards.
AggregateStructure ==
    /\ agg.pc = "aggregate"
    /\ agg.impl = "structure"
    /\ agg.c <= Len(agg.candidates_list)
    /\ LET cand == agg.candidates_list[agg.c]
       IN  agg' = [agg EXCEPT
                     !.rewards =
                         IF cand \in DOMAIN agg.reward_values
                         THEN Append(@, CandidateMean(agg.reward_values[cand],
                                                      agg.ads_preferences).value)
                         ELSE @,
                     !.c = @ + 1]

\* One iteration of parse_adsorption_energies' loop over candidates_list.
\* For a candidate in reward_values the list comprehension evaluates
\* reward_values[cand][ads] > 0, a list compared with an int, for the first
\* key of a dict that is never empty: TypeError.  For a candidate not in
\* reward_values the function returns what list.append returns, None.
AggregatePath ==
    /\ agg.pc = "aggregate"
    /\ agg.impl = "path"
    /\ agg.c <= Len(agg.candidates_list)
    /\ LET cand == agg.candidates_list[agg.c]
       IN  IF cand \in DOMAIN agg.reward_values
           THEN agg' = [agg EXCEPT !.pc = "done",
                                   !.out = [kind |-> "raise"]]
           ELSE agg' = [agg EXCEPT !.pc = "done",
                                   !.rewards = Append(@, <<PenaltyValue, 1>>),
                                   !.out = [kind |-> "none"]]

\* final_reward = np.mean(rewards); return final_reward
FinalReward ==
    /\ agg.pc = "aggregate"
    /\ agg.c > Len(agg.candidates_list)
    /\ agg' = [agg EXCEPT !.pc = "done",
                          !.out = NpMean(agg.rewards)]

\* Results of at most MaxStructures structures of the candidates in cands.
RECURSIVE ResultLists(_, _)
ResultLists(cands, n) ==
    IF n = 0
    THEN {<<>>}
    ELSE LET shorter == ResultLists(cands, n - 1)
         IN  shorter \cup
             {Append(r, [cand |-> c, ads |-> a, energy |-> e, valid |-> v]) :
                 r \in {x \in shorter : Len(x) = n - 1},
                 c \in cands, a \in Adsorbates,
                 e \in AdsEnergies, v \in BOOLEAN}

InitAgg ==
    /\ RestOff
    /\ InitTree(0, 0)
    /\ DriverOff
    /\ LlmOff
    /\ SimOff
    /\ PolOff
    /\ \E impl \in {"structure", "path"},
          n \in 0..MaxCandidates,
          prefs \in [Adsorbates -> 1..MaxPreference] :
          \E input \in ResultLists(1..n, MaxStructures) :
              agg = [pc |-> IF input = <<>> THEN "aggregate" ELSE "parse",
                     impl |-> impl,
                     candidates_list |-> [j \in 1..n |-> j],
                     ads_preferences |-> prefs,
                     input |-> input,
                     k |-> 1,
                     reward_values |-> <<>>,
                     rewards |-> <<>>,
                     c |-> 1,
                     out |-> [kind |-> "pending"]]

agg_frame == <<vars, driver_vars, llm, sim, pol, rest_vars>>

NextAgg ==
    \/ ParseStructure /\ UNCHANGED agg_frame
    \/ ParsePath /\ UNCHANGED agg_frame
    \/ AggregateStructure /\ UNCHANGED agg_frame
    \/ AggregatePath /\ UNCHANGED agg_frame
    \/ FinalReward /\ UNCHANGED agg_frame

SpecAgg == InitAgg /\ [][NextAgg]_all_vars

\* ---------------------------------------------------------------- batches
(***************************************************************************)
(* create_batches_and_calculate of StructureReward (simulation_reward.py)  *)
(* and of PathReward (reaction_reward.py), called MaxReruns times on one   *)
(* trajectory directory.  An adslab is its key <<name, idx>>.  A file of   *)
(* the directory is <<name, idx, u>>: name/idx.traj for u = 0 and          *)
(* name/idx-u.traj for the u-th uuid4 drawn.  The calculator               *)
(* (nnp/oc.py: batched_relax_atoms, batched_adsorption_calculation,        *)
(* get_prediction, get_prediction2, get_validity) is not in the            *)
(* repository's sources: it writes one trajectory file and one result      *)
(* record per structure it is given and reads the records back.            *)
(***************************************************************************)
Names == 1..MaxCandidates
Indices == {1, MaxIdx}
Keys == Names \X Indices
\* What the calculator computes for one structure: a binding energy and,
\* told to PathReward only, whether the relaxed structure is valid.
Outcomes(impl) ==
    [energy : (-MaxBinding)..(-1),
     valid : IF impl = "structure" THEN {TRUE} ELSE BOOLEAN]

\* str(a) is a prefix of str(b)
RECURSIVE DecPrefix(_, _)
DecPrefix(a, b) == a = b \/ (b >= 10 /\ DecPrefix(a, b \div 10))

\* (traj_dir / (str(fname) + ".traj")).exists()
TrajExists(key) == <<key[1], key[2], 0>> \in sim.trajs

\* len(list(traj_dir.rglob(str(fname) + "*.traj"))) # 0
TrajGlob(key) ==
    \E f \in sim.trajs : f[1] = key[1] /\ DecPrefix(key[2], f[2])

\* get_prediction(name, idx) / get_prediction2(name, idx): <<>> is None
GetPrediction(key) ==
    IF key \in DOMAIN sim.records THEN <<sim.records[key].energy>> ELSE <<>>

\* get_validity(name, idx) of a structure that has a record
GetValidity(rec, key) == rec[key].valid

\* The else branch of the loop body is taken and ads_calc is not None.
UseCacheNever(key) ==
    /\ FALSE
    /\ key \in Keys

UseCache(key) ==
    /\ IF sim.impl = "structure" THEN TrajExists(key) ELSE TrajGlob(key)
    /\ GetPrediction(key) # <<>>

\* str(fname), and str(fname) + f"-{uuid.uuid4()}" in PathReward
Fname(key) ==
    IF sim.impl = "structure"
    THEN <<key[1], key[2], 0>>
    ELSE <<key[1], key[2], sim.uuids + 1>>

\* Path(fname).stem, and Path(fname).stem.split("-")[0] in PathReward;
\* str(Path(fname).parent)
StemIdx(fname) == fname[2]
ParentName(fname) == fname[1]

\* A result tuple: (idx, name, energy), and with valid in PathReward.
ResultTuple(impl, key, energy, valid) ==
    IF impl = "structure"
    THEN <<key[2], key[1], energy>>
    ELSE <<key[2], key[1], energy, valid>>

\* The records after the calculator was given fnames and computed es.
Recorded(rec, fnames, es) ==
    LET written == {<<ParentName(fnames[j]), StemIdx(fnames[j])>> :
                        j \in 1..Len(fnames)}
        last(key) == CHOOSE j \in 1..Len(fnames) :
                        /\ <<ParentName(fnames[j]), StemIdx(fnames[j])>> = key
                        /\ \A l \in 1..Len(fnames) :
                               <<ParentName(fnames[l]), StemIdx(fnames[l])>> = key
                                   => l <= j
    IN  [key \in DOMAIN rec \cup written |->
            IF key \in written THEN es[last(key)] ELSE rec[key]]

\* unpack_batch_results(batch_results, fname_batch)
UnpackBatchResults(impl, rec, es, fnames) ==
    [j \in 1..Len(fnames) |->
        LET key == <<ParentName(fnames[j]), StemIdx(fnames[j])>>
        IN  ResultTuple(impl, key, es[j].energy, GetValidity(rec, key))]

\* batch_results = self.calculate_batch(adslab_batch, fname_batch);
\* results += self.unpack_batch_results(batch_results, fname_batch);
\* adslab_batch = []; fname_batch = []
Dispatched(s, es) ==
    LET rec == Recorded(s.records, s.fname_batch, es)
        given == {s.adslab_batch[j] : j \in 1..Len(s.adslab_batch)}
    IN  [s EXCEPT
           !.trajs = @ \cup {s.fname_batch[j] : j \in 1..Len(s.fname_batch)},
           !.records = rec,
           !.results = @ \o UnpackBatchResults(s.impl, rec, es, s.fname_batch),
           !.calls = @ + 1,
           !.batches = Append(@, s.adslab_batch),
           !.passed = @ \cup given,
           !.first = [key \in DOMAIN @ \cup given |->
                         IF key \in DOMAIN @ THEN @[key] ELSE rec[key].energy],
           !.adslab_batch = <<>>,
           !.fname_batch = <<>>]

\* The batch is dispatched once it is longer than batch_size.
DispatchWhenOver(s) ==
    IF Len(s.adslab_batch) > s.batch_size
    THEN \E es \in [1..Len(s.adslab_batch) -> Outcomes(s.impl)] :
             sim' = Dispatched(s, es)
    ELSE sim' = s

\* dispatch the batch
DispatchIfFull(s) ==
    IF Len(s.adslab_batch) = s.batch_size
    THEN \E es \in [1..Len(s.adslab_batch) -> Outcomes(s.impl)] :
             sim' = Dispatched(s, es)
    ELSE sim' = s

\* A loop iteration that appends the adslab to the batch.
SimToBatch ==
    /\ sim.pc = "loop"
    /\ sim.k <= Len(sim.adslabs)
    /\ ~UseCache(sim.adslabs[sim.k])
    /\ DispatchIfFull(
         [sim EXCEPT
            !.adslab_batch = Append(@, sim.adslabs[sim.k]),
            !.fname_batch = Append(@, Fname(sim.adslabs[sim.k])),
            !.uuids = IF sim.impl = "structure" THEN @ ELSE @ + 1,
            !.k = @ + 1])

\* A loop iteration that takes the pre-calculated value.
SimFromCache ==
    /\ sim.pc = "loop"
    /\ sim.k <= Len(sim.adslabs)
    /\ UseCache(sim.adslabs[sim.k])
    /\ LET key == sim.adslabs[sim.k]
       IN  DispatchIfFull(
             [sim EXCEPT
                !.results = Append(@, ResultTuple(sim.impl, key,
                                                  GetPrediction(key)[1],
                                                  GetValidity(sim.records, key))),
                !.k = @ + 1])

\* dispatch the remaining batch; return results
SimReturn ==
    /\ sim.pc = "loop"
    /\ sim.k > Len(sim.adslabs)
    /\ IF Len(sim.adslab_batch) > 0
       THEN \E es \in [1..Len(sim.adslab_batch) -> Outcomes(sim.impl)] :
                sim' = [Dispatched(sim, es) EXCEPT !.pc = "returned"]
       ELSE sim' = [sim EXCEPT !.pc = "returned"]

\* The structures with a result record and its trajectory file on disk.
CachedKeys(s) ==
    {key \in DOMAIN s.records : \E f \in s.trajs : f[1] = key[1] /\ f[2] = key[2]}

\* Lists of at most n distinct adslabs.
RECURSIVE AdslabLists(_)
AdslabLists(n) ==
    IF n = 0
    THEN {<<>>}
    ELSE LET shorter == AdslabLists(n - 1)
         IN  shorter \cup
             {Append(r, key) :
                 r \in {x \in shorter : Len(x) = n - 1},
                 key \in Keys}

Distinct(r) == \A a, b \in 1..Len(r) : a # b => r[a] # r[b]

\* The next call, on the directory as the calls before left it.
SimRerun ==
    /\ sim.pc = "returned"
    /\ sim.run < MaxReruns
    /\ \E adslabs \in {r \in AdslabLists(MaxStructures) : Distinct(r)} :
           sim' = [sim EXCEPT
                     !.pc = "loop",
                     !.run = @ + 1,
                     !.adslabs = adslabs,
                     !.k = 1,
                     !.results = <<>>,
                     !.calls = 0,
                     !.batches = <<>>,
                     !.passed = {},
                     !.cached0 = CachedKeys(sim)]

InitSim ==
    /\ RestOff
    /\ InitTree(0, 0)
    /\ DriverOff
    /\ LlmOff
    /\ AggOff
    /\ PolOff
    /\ \E impl \in {"structure", "path"},
          batch_size \in 1..MaxBatch,
          adslabs \in {r \in AdslabLists(MaxStructures) : Distinct(r)} :
          \E relaxed \in SUBSET {adslabs[j] : j \in 1..Len(adslabs)} :
          sim = [pc |-> "loop",
                 impl |-> impl,
                 batch_size |-> batch_size,
                 trajs |-> {<<key[1], key[2], 0>> : key \in relaxed},
                 records |-> <<>>,
                 uuids |-> 0,
                 adslabs |-> adslabs,
                 k |-> 1,
                 results |-> <<>>,
                 adslab_batch |-> <<>>,
                 fname_batch |-> <<>>,
                 run |-> 1,
                 calls |-> 0,
                 batches |-> <<>>,
                 passed |-> {},
                 cached0 |-> {},
                 first |-> <<>>]

sim_frame == <<vars, driver_vars, llm, agg, pol, rest_vars>>

NextSim ==
    \/ SimToBatch /\ UNCHANGED sim_frame
    \/ SimFromCache /\ UNCHANGED sim_frame
    \/ SimReturn /\ UNCHANGED sim_frame
    \/ SimRerun /\ UNCHANGED sim_frame

SpecSim == InitSim /\ [][NextSim]_all_vars

\* ---------------------------------------------------------------- coherent policy
(***************************************************************************)
(* One call CoherentPolicy.get_actions(state)                              *)
(* (search/policy/coherent_policy.py).  ReasonerPolicy.get_actions and     *)
(* ReasonerState.similarity are not in the repository's sources: the first *)
(* returns the actions with one non-negative prior each, the second one    *)
(* score per trial state.  Numbers are integers: a score is 0 or a         *)
(* positive integer, 1 / temperature is a positive integer and the         *)
(* exponential of softmax has base 2; softmax(x) * priors, renormalised,   *)
(* is then the exact fraction <<2^(x_i - min x) * p_i, sum of these>>.     *)
(* Indices are 0-based as the code stores them.                            *)
(***************************************************************************)

\* MinMaxScaler.transform after fit([[x]]): data_min = data_max = x, the
\* zero range is replaced by 1, so the scale is 1 and the offset -x.
TransformReward(x) == x - pol.data_min

\* full_sim_scores = np.zeros_like(priors);
\* full_sim_scores[np.array(idx_trial_states)] = np.array(sim_scores)
FullSimScores(idx, scores) ==
    [j \in 1..Len(pol.priors) |->
        IF \E t \in 1..Len(idx) : idx[t] = j - 1
        THEN scores[CHOOSE t \in 1..Len(idx) : idx[t] = j - 1]
        ELSE 0]

\* np.array([]) has dtype float64: used as an index it raises IndexError.
IndexRaises(idx) == idx = <<>>

\* reward_adjustment
RewardAdjustment(full) ==
    IF pol.reward # <<>>
    THEN [j \in 1..Len(full) |->
            full[j] * TransformReward(pol.reward[1])
            + (1 - full[j]) * (1 - TransformReward(pol.reward[1]))]
    ELSE full

\* the smallest entry of a non-empty vector
VecMin(x) ==
    CHOOSE m \in {x[j] : j \in 1..Len(x)} : \A j \in 1..Len(x) : m <= x[j]

\* softmax(x): proportional to the exponentials of the entries; they are
\* taken relative to the smallest entry, which changes no quotient.
SoftmaxWeights(x) == [j \in 1..Len(x) |-> Pow(2, x[j] - VecMin(x))]

RECURSIVE IntSum(_)
IntSum(x) == IF x = <<>> THEN 0 ELSE Head(x) + IntSum(Tail(x))

\* new_priors = softmax(reward_adjustment / temperature) * priors;
\* new_priors = new_priors / np.sum(new_priors)
NewPriorsUniform(adjustment) ==
    LET w == SoftmaxWeights([j \in 1..Len(adjustment) |->
                                adjustment[j] * pol.sharpness])
    IN  [j \in 1..Len(w) |-> <<w[j], IntSum(w)>>]

NewPriors(adjustment) ==
    LET w == SoftmaxWeights([j \in 1..Len(adjustment) |->
                                adjustment[j] * pol.sharpness])
        unnormalized == [j \in 1..Len(w) |-> w[j] * pol.priors[j]]
    IN  [j \in 1..Len(w) |-> <<unnormalized[j], IntSum(unnormalized)>>]

\* An iteration of the loop over the actions with priors[i] > 0.
PolTrial ==
    /\ pol.pc = "trials"
    /\ pol.i < Len(pol.actions)
    /\ pol.priors[pol.i + 1] > 0
    /\ pol' = [pol EXCEPT
                 !.trial_states = Append(@, <<pol.actions[pol.i + 1], "trial">>),
                 !.idx_trial_states = Append(@, pol.i),
                 !.i = @ + 1]

\* An iteration of the loop with priors[i] = 0.
PolSkip ==
    /\ pol.pc = "trials"
    /\ pol.i < Len(pol.actions)
    /\ ~(pol.priors[pol.i + 1] > 0)
    /\ pol' = [pol EXCEPT !.i = @ + 1]

\* The rest of get_actions, from state.similarity(trial_states) on.
PolScores ==
    /\ pol.pc = "trials"
    /\ pol.i = Len(pol.actions)
    /\ \E sim_scores \in [1..Len(pol.trial_states) -> 0..MaxSimilarity] :
           IF IndexRaises(pol.idx_trial_states)
           THEN pol' = [pol EXCEPT !.pc = "done",
                                   !.sim_scores = sim_scores,
                                   !.out = "raised"]
           ELSE LET full == FullSimScores(pol.idx_trial_states, sim_scores)
                    adjustment == RewardAdjustment(full)
                IN  pol' = [pol EXCEPT
                              !.pc = "done",
                              !.sim_scores = sim_scores,
                              !.full_sim_scores = full,
                              !.info = [reward_adjusted_similarities |-> adjustment,
                                        reward_adjustment_value |->
                                            IF pol.reward = <<>> THEN <<>>
                                            ELSE <<TransformReward(pol.reward[1])>>,
                                        values |-> NewPriors(adjustment)],
                              !.ret_actions = pol.actions,
                              !.ret_priors = NewPriors(adjustment),
                              !.out = "returned"]

InitPol ==
    /\ RestOff
    /\ InitTree(0, 0)
    /\ DriverOff
    /\ LlmOff
    /\ AggOff
    /\ SimOff
    /\ \E n \in 1..MaxActions,
          data_min \in 0..MaxReward,
          sharpness \in 1..MaxSharpness :
          \* the reward of the state is None or normalises to 0 or 1
          \E reward \in {<<>>, <<data_min>>, <<data_min + 1>>} :
          \E ps \in [1..n -> 0..MaxPrior] :
              pol = [pc |-> "trials",
                     actions |-> [j \in 1..n |-> j],
                     priors |-> ps,
                     reward |-> reward,
                     data_min |-> data_min,
                     sharpness |-> sharpness,
                     i |-> 0,
                     trial_states |-> <<>>,
                     idx_trial_states |-> <<>>,
                     sim_scores |-> <<>>,
                     full_sim_scores |-> <<>>,
                     info |-> <<>>,
                     ret_actions |-> <<>>,
                     ret_priors |-> <<>>,
                     out |-> "running"]

pol_frame == <<vars, driver_vars, llm, agg, sim, rest_vars>>

NextPol ==
    \/ PolTrial /\ UNCHANGED pol_frame
    \/ PolSkip /\ UNCHANGED pol_frame
    \/ PolScores /\ UNCHANGED pol_frame

SpecPol == InitPol /\ [][NextPol]_all_vars

\* ---------------------------------------------------------------- reward normalizer
(***************************************************************************)
(* The MinMaxScaler of one CoherentPolicy over the calls made on the       *)
(* policy (search/policy/coherent_policy.py).  The scaler is its fitted    *)
(* range [data_min, data_max]; a transformed value is the exact fraction   *)
(* <<x - data_min, range>>, the range 0 being replaced by 1 as             *)
(* sklearn's MinMaxScaler does.  Of get_actions only the calls             *)
(* transform_reward(state.reward) touch the scaler.                        *)
(***************************************************************************)

\* rewards of states: the penalty is negative, a reward is not
NormRewards == (-1)..MaxReward

\* self.min_max.transform([[x]])[0][0]
MinMaxTransform(x) ==
    <<x - norm.data_min,
      IF norm.data_max = norm.data_min THEN 1
      ELSE norm.data_max - norm.data_min>>

\* self.min_max.fit([[x]])
MinMaxFit(x) == [norm EXCEPT !.fitted = TRUE, !.data_min = x, !.data_max = x]

\* self.min_max.partial_fit([[x]])
MinMaxPartialFit(x) ==
    IF norm.fitted
    THEN [norm EXCEPT
            !.data_min = IF x < @ THEN x ELSE @,
            !.data_max = IF x > @ THEN x ELSE @]
    ELSE MinMaxFit(x)

\* transform_reward(x): the scaler is updated with x only when transform
\* raises NotFittedError.
TransformRewardScaler(x) ==
    IF norm.fitted THEN norm ELSE MinMaxPartialFit(x)

\* set_min_max_data(x)
NormSet ==
    /\ norm.pc = "ready"
    /\ \E x \in NormRewards : norm' = MinMaxFit(x)

\* update_min_max_data(x)
NormUpdate ==
    /\ norm.pc = "ready"
    /\ \E x \in NormRewards : norm' = MinMaxPartialFit(x)

\* get_actions(state) with state.reward = r: lines 85-97 transform the
\* reward; nothing else of get_actions reads or writes the scaler.
NormGetActions ==
    /\ norm.pc = "ready"
    /\ \E r \in NormRewards :
           LET after == TransformRewardScaler(r)
           IN  norm' = [after EXCEPT
                          !.seen = @ \cup {r},
                          !.last = <<r>>]

InitNorm ==
    /\ InitTree(0, 0)
    /\ DriverOff
    /\ LlmOff
    /\ AggOff
    /\ SimOff
    /\ PolOff
    /\ QsOff /\ RqOff /\ ItemsOff /\ SymOff /\ TwinOff
    \* __init__: self.min_max.fit([[0]])
    /\ norm = [pc |-> "ready", fitted |-> TRUE, data_min |-> 0, data_max |-> 0,
               seen |-> {}, last |-> <<>>]

norm_frame == <<vars, driver_vars, llm, agg, sim, pol, qs, rq, items, sym, twin>>

NextNorm ==
    \/ NormSet /\ UNCHANGED norm_frame
    \/ NormUpdate /\ UNCHANGED norm_frame
    \/ NormGetActions /\ UNCHANGED norm_frame

SpecNorm == InitNorm /\ [][NextNorm]_all_vars

\* ---------------------------------------------------------------- query state
(***************************************************************************)
(* One QueryState (llm/query.py) under the calls that ask the language     *)
(* model: query, send_query and query_adsorption_energy_list, and under    *)
(* reads of its property candidates.  A string is the sequence of its      *)
(* tokens; str.find, slicing, split, replace and strip work on tokens as   *)
(* Python's work on characters.  run_query is external: it returns any     *)
(* answer or raises.                                                       *)
(***************************************************************************)

\* Answers of the language model to the state's prompt.
Answers ==
    { <<"final_answer", "[", "'", "Pt", "'", ",", " ", "Cu", "]">>,
      <<"[", "Cu", "]", "final_answer", "[", "Pt", "]">>,
      <<"Pt">>,
      <<"[", "Cu">> }

\* Python's reading of a start or end index of a string of length n
PyIndexClamp(n, k) ==
    IF k < 0 THEN (IF n + k < 0 THEN 0 ELSE n + k)
    ELSE (IF k > n THEN n ELSE k)

\* a.find(tok, start): 0-based, -1 when absent
Find(a, tok, start) ==
    LET hits == {k \in PyIndexClamp(Len(a), start)..(Len(a) - 1) : a[k + 1] = tok}
    IN  IF hits = {} THEN -1
        ELSE CHOOSE k \in hits : \A h \in hits : k <= h

\* a[lo : hi]
PySlice(a, lo, hi) ==
    LET l == PyIndexClamp(Len(a), lo)
        h == PyIndexClamp(Len(a), hi)
    IN  IF h > l THEN [k \in 1..(h - l) |-> a[l + k]] ELSE <<>>

\* a.split(tok)
RECURSIVE Split(_, _)
Split(a, tok) ==
    IF Find(a, tok, 0) = -1
    THEN <<a>>
    ELSE <<PySlice(a, 0, Find(a, tok, 0))>>
         \o Split(PySlice(a, Find(a, tok, 0) + 1, Len(a)), tok)

\* a.replace(tok, "")
Remove(a, tok) == SelectSeq(a, LAMBDA t : t # tok)

\* a.strip()
RECURSIVE Strip(_)
Strip(a) ==
    IF a = <<>> THEN a
    ELSE IF Head(a) = " " THEN Strip(Tail(a))
    ELSE IF a[Len(a)] = " " THEN Strip(PySlice(a, 0, Len(a) - 1))
    ELSE a

\* parse_answer(answer, num_expected)
ParseAnswer(answer, num_expected) ==
    LET final_answer_location == Find(answer, "final_answer", 0)
        list_location == Find(answer, "[", final_answer_location)
        answer_list == PySlice(answer, list_location + 1,
                               Find(answer, "]", list_location))
        parts == Split(answer_list, ",")
    IN  [k \in 1..Len(parts) |-> Strip(Remove(Remove(parts[k], "'"), "\""))]

\* the property candidates of a state with this answer (<<>> is None)
CandidatesPrev(answer, num_answers, prev) ==
    IF answer = <<>> THEN prev ELSE ParseAnswer(answer[1], num_answers)

CandidatesOf(answer, num_answers, prev) ==
    IF answer = <<>> THEN <<>> ELSE ParseAnswer(answer[1], num_answers)

\* The fields of the state that its methods can change.
QaFields == [answer |-> qs.answer, num_queries |-> qs.num_queries]

QaIdle == qs.pc = "idle" /\ qs.num_queries < MaxQueries

\* query(): self.answer = self.send_query(self.prompt, ...); an exception of
\* run_query leaves the state as it is.
QaQuery ==
    /\ QaIdle
    /\ \/ \E a \in Answers :
            qs' = [qs EXCEPT !.answer = <<a>>, !.num_queries = @ + 1,
                             !.last = [op |-> "query"]]
       \/ qs' = [qs EXCEPT !.last = [op |-> "query raised"]]

\* send_query(prompt): the answer is returned to the caller
QaSendQuery ==
    /\ QaIdle
    /\ \/ qs' = [qs EXCEPT !.num_queries = @ + 1,
                           !.last = [op |-> "send_query"]]
       \/ qs' = [qs EXCEPT !.last = [op |-> "send_query raised"]]

\* A read of the property candidates.
QaCandidates ==
    /\ qs.pc = "idle"
    /\ qs' = [qs EXCEPT
                !.last = [op |-> "candidates",
                          value |-> CandidatesOf(qs.answer, qs.num_answers,
                                                 qs.prev_candidate_list),
                          before |-> QaFields]]

\* query_adsorption_energy_list(): retries = 0; error = None
QaEnergyList ==
    /\ QaIdle
    /\ qs' = [qs EXCEPT !.pc = "while", !.retries = 0, !.error = <<>>,
                        !.tries = <<>>, !.requeries = 0,
                        !.last = [op |-> "energy_list"]]

\* while retries < 3
QaRetriesLeftAlways == qs.retries < QueryRetries + 1

QaRetriesLeft == qs.retries < QueryRetries

\* One pass of the while loop up to the return or the except clause:
\* retries += 1, then per adsorbate the candidates are read and a query is
\* sent (sent counts the queries that returned), the answers are parsed into
\* numbers and the mean is returned; any exception goes to the except clause.
QaTry ==
    /\ qs.pc = "while"
    /\ IF QaRetriesLeft
       THEN \/ \E v \in EnergyVals :
                 qs' = [qs EXCEPT
                          !.pc = "returned",
                          !.retries = @ + 1,
                          !.num_queries = @ + qs.n_ads,
                          !.tries = Append(@, "value"),
                          !.value = <<v>>,
                          !.value_from = CandidatesOf(qs.answer, qs.num_answers,
                                                      qs.prev_candidate_list)]
            \/ \E sent \in 0..qs.n_ads :
                 qs' = [qs EXCEPT
                          !.pc = "except",
                          !.retries = @ + 1,
                          !.num_queries = @ + sent,
                          !.tries = Append(@, "error"),
                          !.error = <<qs.retries + 1>>]
       \* raise error
       ELSE qs' = [qs EXCEPT !.pc = "raised", !.raised = qs.error]

\* except Exception as err: error = err; self.query().  An exception of
\* query() leaves the function from inside the handler.
QaExcept ==
    /\ qs.pc = "except"
    /\ \/ \E a \in Answers :
            qs' = [qs EXCEPT !.pc = "while", !.answer = <<a>>,
                             !.num_queries = @ + 1,
                             !.requeries = @ + 1]
       \/ qs' = [qs EXCEPT !.pc = "raised", !.raised = <<0>>]

\* The caller goes on after the call.
QaResume ==
    /\ qs.pc \in {"returned", "raised"}
    /\ qs' = [qs EXCEPT !.pc = "idle", !.last = [op |-> "resumed"]]

InitQa ==
    /\ InitTree(0, 0)
    /\ DriverOff
    /\ LlmOff
    /\ AggOff
    /\ SimOff
    /\ PolOff
    /\ NormOff /\ RqOff /\ ItemsOff /\ SymOff /\ TwinOff
    /\ \E n \in 1..MaxAdsorbates, answer \in {<<>>} \cup {<<a>> : a \in Answers} :
          qs = [pc |-> "idle",
                answer |-> answer,
                num_queries |-> 0,
                num_answers |-> NumAnswers,
                prev_candidate_list |-> <<<<"Cu">>>>,
                n_ads |-> n,
                retries |-> 0, error |-> <<>>, tries |-> <<>>, requeries |-> 0,
                value |-> <<>>, value_from |-> <<>>, raised |-> <<>>,
                last |-> [op |-> "init"]]

qs_frame == <<vars, driver_vars, llm, agg, sim, pol, norm, rq, items, sym, twin>>

NextQa ==
    \/ QaQuery /\ UNCHANGED qs_frame
    \/ QaSendQuery /\ UNCHANGED qs_frame
    \/ QaCandidates /\ UNCHANGED qs_frame
    \/ QaEnergyList /\ UNCHANGED qs_frame
    \/ QaTry /\ UNCHANGED qs_frame
    \/ QaExcept /\ UNCHANGED qs_frame
    \/ QaResume /\ UNCHANGED qs_frame

SpecQa == InitQa /\ [][NextQa]_all_vars

\* ---------------------------------------------------------------- query state objects
(***************************************************************************)
(* QueryState objects made from one another by copy() and return_next()    *)
(* (llm/query.py).  qs.objs are the objects in the order of their          *)
(* construction and qs.lists the list objects; a list field of an object   *)
(* holds the index of its list, so that two fields holding the same index  *)
(* share one list.  Code outside the class appends to the list fields of   *)
(* the states it is given.                                                 *)
(***************************************************************************)
ListFields == {"ads_symbols", "ads_preferences", "prev_candidate_list",
               "include_list", "exclude_list"}

\* The defaults of __init__'s keyword arguments; template, reward_template
\* and ads_symbols have none and are always passed.  An argument that is a
\* list is passed by its content, <<>> for ads_preferences is None.
InitDefaults ==
    [template |-> "", reward_template |-> "", ads_symbols |-> <<>>,
     ads_preferences |-> <<>>,
     catalyst_label |-> " catalysts",
     num_answers |-> NumAnswers,
     prev_candidate_list |-> <<>>,
     relation_to_candidate_list |-> "None",
     include_list |-> <<>>,
     exclude_list |-> <<>>,
     answer |-> <<>>,
     num_queries |-> 0,
     prediction_model |-> "gpt-3.5-turbo",
     reward_model |-> "gpt-3.5-turbo"]

\* The object with the contents of its lists in the place of the lists.
Deep(h, o) ==
    [f \in DOMAIN h.objs[o] |->
        IF f \in ListFields THEN h.lists[h.objs[o][f]] ELSE h.objs[o][f]]

DeepAll(h) == [o \in 1..Len(h.objs) |-> Deep(h, o)]

\* __init__(**a): every list argument is copied into a new list;
\* ads_preferences = None becomes [1] * len(self.ads_symbols).
Construct(h, a) ==
    LET n == Len(h.lists)
        ones == [k \in 1..Len(a.ads_symbols) |-> 1]
    IN  [h EXCEPT
           !.lists = @ \o << a.ads_symbols,
                             IF a.ads_preferences = <<>> THEN ones
                             ELSE a.ads_preferences[1],
                             a.prev_candidate_list,
                             a.include_list,
                             a.exclude_list >>,
           !.objs = Append(@,
               [template |-> a.template,
                reward_template |-> a.reward_template,
                ads_symbols |-> n + 1,
                ads_preferences |-> n + 2,
                catalyst_label |-> a.catalyst_label,
                num_answers |-> a.num_answers,
                prev_candidate_list |-> n + 3,
                relation_to_candidate_list |-> a.relation_to_candidate_list,
                include_list |-> n + 4,
                exclude_list |-> n + 5,
                answer |-> a.answer,
                num_queries |-> a.num_queries,
                prediction_model |-> a.prediction_model,
                reward_model |-> a.reward_model])]

\* The keyword arguments copy() passes: all but num_answers.
CopyArgs(s) ==
    [InitDefaults EXCEPT
        !.template = s.template,
        !.reward_template = s.reward_template,
        !.ads_symbols = s.ads_symbols,
        !.ads_preferences = <<s.ads_preferences>>,
        !.catalyst_label = s.catalyst_label,
        !.prev_candidate_list = s.prev_candidate_list,
        !.relation_to_candidate_list = s.relation_to_candidate_list,
        !.include_list = s.include_list,
        !.exclude_list = s.exclude_list,
        !.answer = s.answer,
        !.num_queries = s.num_queries,
        !.prediction_model = s.prediction_model,
        !.reward_model = s.reward_model]

\* The keyword arguments return_next() passes.
ReturnNextArgsCounting(s) ==
    [InitDefaults EXCEPT
        !.template = s.template,
        !.reward_template = s.reward_template,
        !.ads_symbols = s.ads_symbols,
        !.prev_candidate_list =
            CandidatesOf(s.answer, s.num_answers, s.prev_candidate_list),
        !.relation_to_candidate_list = s.relation_to_candidate_list,
        !.include_list = s.include_list,
        !.exclude_list = s.exclude_list,
        !.answer = <<>>,
        !.num_queries = s.num_queries,
        !.prediction_model = s.prediction_model,
        !.reward_model = s.reward_model]

ReturnNextArgs(s) ==
    [InitDefaults EXCEPT
        !.template = s.template,
        !.reward_template = s.reward_template,
        !.ads_symbols = s.ads_symbols,
        !.prev_candidate_list =
            CandidatesOf(s.answer, s.num_answers, s.prev_candidate_list),
        !.relation_to_candidate_list = s.relation_to_candidate_list,
        !.include_list = s.include_list,
        !.exclude_list = s.exclude_list,
        !.answer = <<>>,
        !.num_queries = 0,
        !.prediction_model = s.prediction_model,
        !.reward_model = s.reward_model]

\* The answers the language model gives to these states: one that parses to
\* two candidates and one without a list.
HeapAnswers ==
    { <<"final_answer", "[", "'", "Pt", "'", ",", " ", "Cu", "]">>,
      <<"Pt">> }

\* The operation just made, with the objects as they were before it.
Did(op, o) ==
    [op |-> op, obj |-> o, new |-> Len(qs.objs) + 1, before |-> DeepAll(qs)]

\* o.copy()
QsCopy ==
    /\ qs.pc = "heap"
    /\ Len(qs.objs) < MaxObjects
    /\ \E o \in 1..Len(qs.objs) :
           qs' = [Construct(qs, CopyArgs(Deep(qs, o))) EXCEPT
                    !.made = Append(@, <<"copy", o>>),
                    !.last = Did("copy", o)]

\* o.return_next()
QsReturnNext ==
    /\ qs.pc = "heap"
    /\ Len(qs.objs) < MaxObjects
    /\ \E o \in 1..Len(qs.objs) :
           qs' = [Construct(qs, ReturnNextArgs(Deep(qs, o))) EXCEPT
                    !.made = Append(@, <<"return_next", o>>),
                    !.last = Did("return_next", o)]

\* o.query(), when run_query returns
QsQuery ==
    /\ qs.pc = "heap"
    /\ \E o \in 1..Len(qs.objs), a \in HeapAnswers :
           /\ qs.objs[o].num_queries < MaxHeapQueries
           /\ qs' = [qs EXCEPT !.objs[o].answer = <<a>>,
                               !.objs[o].num_queries = @ + 1,
                               !.last = Did("query", o)]

\* A caller appends an element to a list field of o.
QsMutate ==
    /\ qs.pc = "heap"
    /\ qs.mutations < MaxMutations
    /\ \E o \in 1..Len(qs.objs),
          f \in {"ads_symbols", "prev_candidate_list", "include_list",
                 "exclude_list"} :
           qs' = [qs EXCEPT !.lists[qs.objs[o][f]] = Append(@, <<"x">>),
                            !.mutations = @ + 1,
                            !.last = [Did("mutate", o) EXCEPT !.new = 0]]

InitQs ==
    /\ InitTree(0, 0)
    /\ DriverOff
    /\ LlmOff
    /\ AggOff
    /\ SimOff
    /\ PolOff
    /\ NormOff /\ RqOff /\ ItemsOff /\ SymOff /\ TwinOff
    /\ \E num_answers \in {NumAnswers, NumAnswers + 1},
          label \in {" catalysts", " oxides"},
          prefs \in {<<>>, << <<2>> >>} :
          qs = Construct([objs |-> <<>>, lists |-> <<>>],
                          [InitDefaults EXCEPT
                              !.template = "template",
                              !.reward_template = "reward_template",
                              !.ads_symbols = << <<"CO">> >>,
                              !.ads_preferences = prefs,
                              !.catalyst_label = label,
                              !.num_answers = num_answers,
                              !.relation_to_candidate_list = "similar to",
                              !.include_list = << <<"Pt">> >>])
               @@ [pc |-> "heap", made |-> << <<"init", 0>> >>,
                   mutations |-> 0, last |-> [op |-> "init"]]

NextQs ==
    \/ QsCopy /\ UNCHANGED qs_frame
    \/ QsReturnNext /\ UNCHANGED qs_frame
    \/ QsQuery /\ UNCHANGED qs_frame
    \/ QsMutate /\ UNCHANGED qs_frame

SpecQs == InitQs /\ [][NextQs]_all_vars

\* ---------------------------------------------------------------- language-model calls
(***************************************************************************)
(* One call of the language model through run_query (llm/query.py), which  *)
(* backoff.on_exception wraps with exponential waits and max_time, or      *)
(* through parallel_azure_openai_chat_completion                           *)
(* (llm/azure_open_ai_interface.py), which calls itself again after a      *)
(* RateLimitError.  The service is external: a request returns a           *)
(* completion, fails with a rate-limit error or fails with another error.  *)
(* Time is counted in seconds; a request takes at least one.               *)
(***************************************************************************)
Latencies == 1..MaxLatency

\* min(2^tries, cap), the wait backoff.expo proposes before retry tries + 1,
\* cut at cap
RECURSIVE ExpoUpTo(_, _)
ExpoUpTo(tries, cap) ==
    IF cap <= 1 \/ tries = 0 THEN (IF cap < 1 THEN cap ELSE 1)
    ELSE LET half == ExpoUpTo(tries - 1, cap)
         IN  IF 2 * half > cap THEN cap ELSE 2 * half

\* run_query: the request is made.  backoff retries on openai.error.OpenAIError,
\* of which the rate-limit error is one; any other exception propagates.
RunQueryCall ==
    /\ rq.pc = "call"
    /\ rq.impl = "run_query"
    /\ \E outcome \in {"ok", "rate_limit", "openai_error", "other"},
          latency \in Latencies :
          rq' = [rq EXCEPT
                   !.elapsed = @ + latency,
                   !.pc = CASE outcome = "ok" -> "returned"
                            [] outcome = "other" -> "raised"
                            [] OTHER -> "failed",
                   !.error = IF outcome \in {"ok"} THEN "" ELSE outcome]

\* backoff: max_time is used up, the exception is raised to the caller
RunQueryGiveUp ==
    /\ rq.pc = "failed"
    /\ rq.impl = "run_query"
    /\ rq.elapsed >= MaxTime
    /\ rq' = [rq EXCEPT !.pc = "raised"]

\* backoff: sleep a jittered part of the exponential wait, no longer than
\* what is left of max_time, then call again
RunQueryWait ==
    /\ rq.pc = "failed"
    /\ rq.impl = "run_query"
    /\ rq.elapsed < MaxTime
    /\ \E wait \in 0..ExpoUpTo(rq.tries, MaxTime - rq.elapsed) :
          rq' = [rq EXCEPT !.elapsed = @ + wait,
                           !.tries = @ + 1,
                           !.pc = "call"]

\* parallel_azure_openai_chat_completion: the request is made; only
\* RateLimitError is caught.
AzureCall ==
    /\ rq.pc = "call"
    /\ rq.impl = "azure"
    /\ \E outcome \in {"ok", "rate_limit", "other"} :
          rq' = [rq EXCEPT
                   !.pc = CASE outcome = "ok" -> "returned"
                            [] outcome = "other" -> "raised"
                            [] OTHER -> "failed",
                   !.error = IF outcome = "ok" THEN "" ELSE outcome]

\* the except branch: sleep the time the message names, or DefaultSleep, and
\* call the function again with the same arguments
AzureSleep ==
    /\ rq.pc = "failed"
    /\ rq.impl = "azure"
    /\ \E retry_time \in (1..MaxRetryAfter) \cup {DefaultSleep} :
          rq' = [rq EXCEPT !.slept = retry_time, !.pc = "call"]

InitRq ==
    /\ InitTree(0, 0)
    /\ DriverOff
    /\ LlmOff
    /\ AggOff
    /\ SimOff
    /\ PolOff
    /\ NormOff /\ QsOff /\ ItemsOff /\ SymOff /\ TwinOff
    /\ \E impl \in {"run_query", "azure"} :
          rq = [pc |-> "call", impl |-> impl, elapsed |-> 0, tries |-> 0,
                slept |-> 0, error |-> ""]

rq_frame == <<vars, driver_vars, llm, agg, sim, pol, norm, qs, items, sym, twin>>

NextRq ==
    \/ RunQueryCall /\ UNCHANGED rq_frame
    \/ RunQueryGiveUp /\ UNCHANGED rq_frame
    \/ RunQueryWait /\ UNCHANGED rq_frame
    \/ AzureCall /\ UNCHANGED rq_frame
    \/ AzureSleep /\ UNCHANGED rq_frame

SpecRq == InitRq /\ [][NextRq]_all_vars

\* A request is answered or fails, and a sleep ends: a step that can be
\* taken is taken.
SpecRqFair == SpecRq /\ WF_all_vars(NextRq)

\* ---------------------------------------------------------------- item loops
(***************************************************************************)
(* The loops over the items of a run: the for loop of                      *)
(* scripts/run_icml_queries.py (lines 217-263) and the one of main in      *)
(* scripts/demo_run_queries.py (lines 66-134).  Every call made for an     *)
(* item returns or raises; an exception no except clause catches ends the  *)
(* program.  items.failed holds the item and the stage of every failure,   *)
(* items.logged the items whose failure an except clause logged.           *)
(***************************************************************************)

\* an exception leaves the for loop: the program ends
ItemCrash(stage) ==
    [items EXCEPT !.pc = "crashed",
                  !.failed = @ \cup {<<items.i, stage>>}]

\* the block of item i ends; the for loop takes the next item or ends
ItemEnd(rec) ==
    [rec EXCEPT !.i = @ + 1,
                !.steps = 0,
                !.pc = IF rec.i < rec.num_items THEN "item" ELSE "done"]

\* run_icml_queries.py lines 218-222: fname, get_state_from_idx, get_policy,
\* get_reward_function and the test of the checkpoint file
ItemBuild ==
    /\ items.pc = "item"
    /\ items.impl = "run_icml"
    /\ \E ok \in BOOLEAN, exists \in BOOLEAN :
          items' = IF ok
                   THEN [items EXCEPT !.started = @ \cup {items.i},
                                      !.pc = IF exists THEN "load" ELSE "fresh"]
                   ELSE [ItemCrash("build") EXCEPT
                            !.started = @ \cup {items.i}]

\* lines 223-233: json.load and BeamSearchTree.from_data
ItemLoad ==
    /\ items.pc = "load"
    /\ \E ok \in BOOLEAN :
          items' = IF ok THEN [items EXCEPT !.pc = "validate"]
                   ELSE ItemCrash("load")

\* lines 234-240: the two assertions on num_keep and num_generate
ItemValidate ==
    /\ items.pc = "validate"
    /\ \E ok \in BOOLEAN :
          items' = IF ok THEN [items EXCEPT !.pc = "search"]
                   ELSE ItemCrash("validate")

\* line 242: get_search_method
ItemFresh ==
    /\ items.pc = "fresh"
    /\ \E ok \in BOOLEAN :
          items' = IF ok THEN [items EXCEPT !.pc = "search"]
                   ELSE ItemCrash("build")

\* lines 244-247: the while test fails
ItemSearched ==
    /\ items.pc = "search"
    /\ items.steps >= items.depth
    /\ items' = ItemEnd(items)

\* The except clause of lines 257-260: the failure is logged and
\* continue_searching = False ends the while loop.
ItemExcept(stage) ==
    ItemEnd([items EXCEPT !.failed = @ \cup {<<items.i, stage>>},
                          !.logged = @ \cup {items.i}])

\* lines 248-256: one step_return and the dump of its data, inside try
ItemStep ==
    /\ items.pc = "search"
    /\ items.steps < items.depth
    /\ \E ok \in BOOLEAN :
          items' = IF ok THEN [items EXCEPT !.steps = @ + 1]
                   ELSE ItemExcept("step")

\* demo_run_queries.py lines 66-134: the whole block of an item, which has
\* no try statement
DemoItem ==
    /\ items.pc = "item"
    /\ items.impl = "demo"
    /\ \E stage \in {"none", "build", "step"} :
          items' = IF stage = "none"
                   THEN ItemEnd([items EXCEPT !.started = @ \cup {items.i}])
                   ELSE [ItemCrash(stage) EXCEPT
                            !.started = @ \cup {items.i}]

InitItems ==
    /\ InitTree(0, 0)
    /\ DriverOff
    /\ LlmOff
    /\ AggOff
    /\ SimOff
    /\ PolOff
    /\ NormOff /\ QsOff /\ RqOff /\ SymOff /\ TwinOff
    /\ \E impl \in {"run_icml", "demo"}, n \in 1..MaxItems,
          d \in 1..MaxDepth :
          items = [pc |-> "item", impl |-> impl, num_items |-> n,
                   depth |-> d, i |-> 1, steps |-> 0, started |-> {},
                   failed |-> {}, logged |-> {}]

items_frame == <<vars, driver_vars, llm, agg, sim, pol, norm, qs, rq, sym, twin>>

NextItems ==
    \/ ItemBuild /\ UNCHANGED items_frame
    \/ ItemLoad /\ UNCHANGED items_frame
    \/ ItemValidate /\ UNCHANGED items_frame
    \/ ItemFresh /\ UNCHANGED items_frame
    \/ ItemSearched /\ UNCHANGED items_frame
    \/ ItemStep /\ UNCHANGED items_frame
    \/ DemoItem /\ UNCHANGED items_frame

SpecItems == InitItems /\ [][NextItems]_all_vars

\* ---------------------------------------------------------------- candidate names
(***************************************************************************)
(* reduce_candidate_symbols of StructureReward (simulation_reward.py) and  *)
(* of PathReward (reaction_reward.py), called on the symbols               *)
(* llm_answer_to_symbols (llm/ase_interface.py) returns for a candidate:   *)
(* list(set), the distinct symbols in any order.  A formula is the         *)
(* sequence of the symbols joined.                                         *)
(***************************************************************************)
Symbols == {"Al", "Cu", "Pt", "Zn"}

\* the place of a symbol in the order of Python's str comparison
SymRank == [s \in Symbols |->
               CASE s = "Al" -> 1 [] s = "Cu" -> 2 [] s = "Pt" -> 3 [] OTHER -> 4]

\* sorted(syms)
RECURSIVE Sorted(_)
Sorted(syms) ==
    IF syms = <<>> THEN <<>>
    ELSE LET least == CHOOSE j \in 1..Len(syms) :
                         \A l \in 1..Len(syms) :
                             SymRank[syms[j]] <= SymRank[syms[l]]
         IN  <<syms[least]>> \o
             Sorted([l \in 1..(Len(syms) - 1) |->
                        IF l < least THEN syms[l] ELSE syms[l + 1]])

\* list(set): the lists of 1..n distinct symbols
RECURSIVE SymbolLists(_)
SymbolLists(n) ==
    IF n = 0 THEN {<<>>}
    ELSE LET shorter == SymbolLists(n - 1)
         IN  shorter \cup
             {Append(r, s) : r \in {x \in shorter : Len(x) = n - 1},
                             s \in Symbols}

\* reduce_candidate_symbols(candidate_syms)
ReduceCandidateSymbols(candidate_syms) ==
    IF Len(candidate_syms) = 2
    THEN candidate_syms
    ELSE <<candidate_syms[1]>> \o Sorted(Tail(candidate_syms))

\* simulation_reward.py line 46: slab_name = self.reduce_candidate_symbols(slab_sym)
SymReduceStructure ==
    /\ sym.pc = "call"
    /\ sym.impl = "structure"
    /\ sym' = [sym EXCEPT !.pc = "returned",
                          !.formula = ReduceCandidateSymbols(sym.syms)]

\* reaction_reward.py line 82, the same code
SymReducePath ==
    /\ sym.pc = "call"
    /\ sym.impl = "path"
    /\ sym' = [sym EXCEPT !.pc = "returned",
                          !.formula = ReduceCandidateSymbols(sym.syms)]

\* the next candidate of the list
SymNext ==
    /\ sym.pc = "returned"
    /\ sym.done < MaxCandidates
    /\ \E syms \in {r \in SymbolLists(MaxSymbols) :
                       r # <<>> /\ \A a, b \in 1..Len(r) : a # b => r[a] # r[b]} :
          sym' = [sym EXCEPT !.pc = "call", !.syms = syms, !.formula = <<>>,
                             !.done = @ + 1]

InitSym ==
    /\ InitTree(0, 0)
    /\ DriverOff
    /\ LlmOff
    /\ AggOff
    /\ SimOff
    /\ PolOff
    /\ NormOff /\ QsOff /\ RqOff /\ ItemsOff /\ TwinOff
    /\ \E impl \in {"structure", "path"},
          syms \in {r \in SymbolLists(MaxSymbols) :
                       r # <<>> /\ \A a, b \in 1..Len(r) : a # b => r[a] # r[b]} :
          sym = [pc |-> "call", impl |-> impl, syms |-> syms,
                 formula |-> <<>>, done |-> 1]

sym_frame == <<vars, driver_vars, llm, agg, sim, pol, norm, qs, rq, items, twin>>

NextSym ==
    \/ SymReduceStructure /\ UNCHANGED sym_frame
    \/ SymReducePath /\ UNCHANGED sym_frame
    \/ SymNext /\ UNCHANGED sym_frame

SpecSym == InitSym /\ [][NextSym]_all_vars

\* ---------------------------------------------------------------- digital twin info
(***************************************************************************)
(* CatalystDigitalTwin.update_info (structure_creation/digital_twin.py)    *)
(* called on one status_key of one twin.  twin.objs are the list and dict  *)
(* objects of the program, a list as the sequence of its elements and a    *)
(* dict as the sequence of its <<key, value>> items; twin.info is <<>>     *)
(* when status_key is not in self.info and <<j>> when info[status_key] is  *)
(* the object j.  The caller makes a new object for every call.            *)
(***************************************************************************)
ListUpdates == {<<>>, <<"a">>, <<"b", "c">>}
DictUpdates == {<< <<"x", "a">> >>, << <<"x", "b">>, <<"y", "c">> >>}

\* d.update(u) for dicts d and u
RECURSIVE DictUpdate(_, _)
DictUpdate(d, u) ==
    IF u = <<>> THEN d
    ELSE LET item == Head(u)
             has == \E j \in 1..Len(d) : d[j][1] = item[1]
         IN  DictUpdate(IF has
                        THEN [j \in 1..Len(d) |->
                                 IF d[j][1] = item[1] THEN item ELSE d[j]]
                        ELSE Append(d, item),
                        Tail(u))

\* Line 84-85: info[status_key] is the object that is passed, when the key
\* is not in info.
Stored(t, updates) == IF t.info = <<>> THEN updates ELSE t.info[1]

\* Lines 87-94, with info[status_key] the object stored and updates the
\* object passed: both are read when the statement is executed.
Updated(objs, stored, updates) ==
    IF objs[stored].kind = "list"
    THEN [objs EXCEPT ![stored].val = @ \o objs[updates].val]
    ELSE [objs EXCEPT ![stored].val = DictUpdate(@, objs[updates].val)]

\* update_info(status_key, updates), updates a new list or dict of the caller
UpdateInfo ==
    /\ twin.pc = "idle"
    /\ twin.calls < MaxUpdates
    /\ \E kind \in {"list", "dict"} :
       \E val \in IF kind = "list" THEN ListUpdates ELSE DictUpdates :
          LET objs == Append(twin.objs, [kind |-> kind, val |-> val])
              updates == Len(objs)
              stored == Stored(twin, updates)
              raises == objs[stored].kind # kind
          IN  twin' = [twin EXCEPT
                         !.calls = @ + 1,
                         !.objs = IF raises THEN objs
                                  ELSE Updated(objs, stored, updates),
                         !.info = <<stored>>,
                         !.given = Append(@, [obj |-> updates, kind |-> kind,
                                              val |-> val,
                                              raised |-> raises]),
                         !.before = [info |-> twin.info, objs |-> twin.objs]]

InitTwin ==
    /\ InitTree(0, 0)
    /\ DriverOff
    /\ LlmOff
    /\ AggOff
    /\ SimOff
    /\ PolOff
    /\ NormOff /\ QsOff /\ RqOff /\ ItemsOff /\ SymOff
    /\ \E start \in {"absent", "list", "dict"} :
          twin = [pc |-> "idle",
                  calls |-> 0,
                  start |-> start,
                  objs |-> CASE start = "absent" -> <<>>
                             [] start = "list" ->
                                    <<[kind |-> "list", val |-> <<"z">>]>>
                             [] OTHER ->
                                    <<[kind |-> "dict",
                                       val |-> << <<"x", "z">> >>]>>,
                  info |-> IF start = "absent" THEN <<>> ELSE <<1>>,
                  given |-> <<>>,
                  before |-> [info |-> <<>>, objs |-> <<>>]]

twin_frame == <<vars, driver_vars, llm, agg, sim, pol, norm, qs, rq, items, sym>>

NextTwin ==
    \/ UpdateInfo /\ UNCHANGED twin_frame

SpecTwin == InitTwin /\ [][NextTwin]_all_vars

\* ---------------------------------------------------------------- properties
\* The last call has run its selection: Last(nodes) is the level it appended
\* and the successor_* accumulators hold the pool it was selected from.
Committed ==
    \/ pc \in {"end_timer", "open", "dump"}
    \/ pc = "idle" /\ ret = "ok"
    \/ pc = "idle" /\ ret = "raised" /\ raised_in \in {"open", "dump"}

PoolIdx == 1..Len(successor_nodes)

\* The pool positions holding node n.
PoolAt(n) == {p \in PoolIdx : successor_nodes[p] = n}

\* C1: a step retains exactly min(num_keep, |pool|) distinct pooled successors,
\* each stored with the reward and the parent index computed for it, and no
\* pooled successor left out has a higher reward than a retained one.
KeepsHighestRewards ==
    Committed =>
        LET kept == Last(nodes)
        IN /\ Len(kept) = Min(num_keep, Len(successor_nodes))
           /\ Cardinality(Range(kept)) = Len(kept)
           /\ \A a \in 1..Len(kept) :
                \E p \in PoolAt(kept[a]) :
                    /\ Last(node_rewards)[a] = successor_rewards[p]
                    /\ Last(parent_idx)[a] = succ_parent_idx[p]
           /\ \A a \in 1..Len(kept) :
                \A p \in PoolIdx :
                    successor_nodes[p] \notin Range(kept)
                        => Last(node_rewards)[a] >= successor_rewards[p]

\* The case KeepsHighestWhenValidated is about: a second step has pooled more
\* successors than num_keep >= 1, of two parents and with different rewards,
\* and has retained num_keep of them.
KeepsHighestRewardsWitness ==
    /\ Committed
    /\ Len(nodes) = 3
    /\ Len(successor_nodes) > num_keep
    /\ Len(Last(nodes)) = num_keep
    /\ \E p, q \in PoolIdx :
          /\ successor_rewards[p] # successor_rewards[q]
          /\ succ_parent_idx[p] # succ_parent_idx[q]

\* C2: the six sequences have the same number of levels, and at every level
\* the node, reward and parent lists have the same length, for the retained
\* triple and for the generated triple.
LevelShapesAgree ==
    /\ Len(node_rewards) = Len(nodes)
    /\ Len(parent_idx) = Len(nodes)
    /\ Len(generated_nodes) = Len(nodes)
    /\ Len(generated_node_rewards) = Len(nodes)
    /\ Len(generated_parent_idx) = Len(nodes)
    /\ \A L \in 1..Len(nodes) :
          /\ Len(node_rewards[L]) = Len(nodes[L])
          /\ Len(parent_idx[L]) = Len(nodes[L])
          /\ Len(generated_node_rewards[L]) = Len(generated_nodes[L])
          /\ Len(generated_parent_idx[L]) = Len(generated_nodes[L])

\* C2 witness: two steps taken, the last one with two retained and at least
\* one discarded successor.
LevelShapesAgreeWitness ==
    /\ pc = "idle"
    /\ Len(nodes) = 3
    /\ Len(nodes[3]) = 2
    /\ Len(generated_nodes[3]) >= 1

\* C3: below the root every parent index is an index of the previous retained
\* level, and the node is a successor of the node at that index.
ParentsAreValid ==
    \A L \in 2..Len(nodes) :
        \A a \in 1..Len(nodes[L]) :
            /\ a <= Len(parent_idx[L])
            /\ parent_idx[L][a] >= 0
            /\ parent_idx[L][a] < Len(nodes[L - 1])
            /\ \E act \in 1..MaxActions :
                  nodes[L][a] = Apply(act, nodes[L - 1][parent_idx[L][a] + 1])

\* C3 witness: a retained node of the third level whose parent is the second
\* node of the level before.
ParentsAreValidWitness ==
    /\ Len(nodes) = 3
    /\ Len(nodes[2]) = 2
    /\ \E a \in 1..Len(nodes[3]) : parent_idx[3][a] = 1

\* C4: no level below the root holds more than num_keep nodes, whatever
\* num_keep the constructor was given.
KeepBound ==
    \A L \in 2..Len(nodes) : Len(nodes[L]) <= num_keep

\* C1 and C4 on the trees whose num_keep passes get_search_method's assertion.
KeepsHighestWhenValidated ==
    num_keep > 0 => (KeepsHighestRewards /\ KeepBound)

\* C5: the retained and the generated level split the pool: the two index
\* lists have no duplicates, are disjoint and cover every pool position, and
\* the two levels hold the nodes at those positions.
PoolIsPartitioned ==
    Committed =>
        /\ Cardinality(Range(selected_node_idx)) = Len(selected_node_idx)
        /\ Cardinality(Range(generated_idx)) = Len(generated_idx)
        /\ Range(selected_node_idx) \cap Range(generated_idx) = {}
        /\ Range(selected_node_idx) \cup Range(generated_idx) = PoolIdx
        /\ Len(Last(nodes)) + Len(Last(generated_nodes)) = Len(successor_nodes)
        /\ Last(nodes) = Pick(successor_nodes, selected_node_idx)
        /\ Last(generated_nodes) = Pick(successor_nodes, generated_idx)
        /\ Range(Last(nodes)) \cup Range(Last(generated_nodes))
               = Range(successor_nodes)
        /\ Range(Last(nodes)) \cap Range(Last(generated_nodes)) = {}

\* C5 witness: a step that retained some successors and discarded two.
PoolIsPartitionedWitness ==
    /\ Committed
    /\ Len(Last(nodes)) >= 1
    /\ Len(Last(generated_nodes)) = 2

PositivePriors == {k \in 1..Len(priors) : priors[k] > 0}

\* The prior the policy gave action a.
PriorOf(a) == priors[CHOOSE k \in 1..Len(actions) : actions[k] = a]

\* The actions expand_node applied: the last action of each successor.
AppliedActions == {Last(next_nodes[k]) : k \in 1..Len(next_nodes)}

\* C6: when expand_node returns, it has produced min(num_generate, P)
\* successors of the expanded node, P the number of positive priors, each by
\* a different action of positive prior, and no action left out has a higher
\* prior than an applied one.
ExpandAppliesTopPriors ==
    pc = "reward" =>
        /\ Len(next_nodes) = Min(num_generate, Cardinality(PositivePriors))
        /\ Cardinality(Range(next_nodes)) = Len(next_nodes)
        /\ \A k \in 1..Len(next_nodes) :
              \E a \in Range(actions) :
                  /\ next_nodes[k] = Apply(a, Last(nodes)[i])
                  /\ PriorOf(a) > 0
        /\ \A a \in AppliedActions :
              \A b \in Range(actions) \ AppliedActions : PriorOf(b) <= PriorOf(a)

\* C6 on the trees whose num_generate passes get_search_method's assertion.
ExpandAppliesTopWhenValidated ==
    num_generate > 0 => ExpandAppliesTopPriors

\* The case ExpandAppliesTopWhenValidated is about: two actions of different
\* positive priors and num_generate = 1: one successor, made by the action of
\* the higher prior.
ExpandAppliesTopPriorsWitness ==
    /\ pc = "reward"
    /\ num_generate = 1
    /\ Len(priors) = 2
    /\ priors[1] > 0
    /\ priors[2] > priors[1]
    /\ Len(next_nodes) = 1

\* Every node of the level the call expands has been expanded.
AllExpanded == ret # "none" /\ i > Len(Last(entry.nodes))

\* C7: a call whose every expanded node was a dead end (and a call on an
\* empty level) reaches its selection with an empty pool and does not raise
\* there: it appends an empty retained and an empty generated level.
DeadEndsGiveEmptyLevel ==
    (AllExpanded /\ dead) =>
        \/ pc = "select" /\ successor_nodes = <<>>
        \/ /\ Committed
           /\ Len(nodes) = Len(entry.nodes) + 1
           /\ Len(Last(nodes)) = 0
           /\ Len(Last(node_rewards)) = 0
           /\ Len(Last(parent_idx)) = 0
           /\ Len(Last(generated_nodes)) = 0
           /\ Len(Last(generated_node_rewards)) = 0
           /\ Len(Last(generated_parent_idx)) = 0

\* C7 witness: a level of two nodes, both dead ends, one of them with a
\* non-empty action list, was followed by an empty level.
DeadEndsGiveEmptyLevelWitness ==
    /\ pc = "idle"
    /\ ret = "ok"
    /\ dead
    /\ Len(nodes) = 3
    /\ Len(nodes[2]) = 2
    /\ Len(nodes[3]) = 0

IsPrefix(s, t) == Len(s) <= Len(t) /\ SubSeq(t, 1, Len(s)) = s

\* C8: every step of the program leaves the existing levels of the six
\* sequences as they are; the selection of a call adds exactly one level to
\* each of them and no other step adds any; level 0 stays the root with
\* reward 0 and parent -1.
LevelsAreAppendOnly ==
    [][/\ IsPrefix(nodes, nodes')
       /\ IsPrefix(node_rewards, node_rewards')
       /\ IsPrefix(parent_idx, parent_idx')
       /\ IsPrefix(generated_nodes, generated_nodes')
       /\ IsPrefix(generated_node_rewards, generated_node_rewards')
       /\ IsPrefix(generated_parent_idx, generated_parent_idx')
       /\ LET d == IF pc = "select" THEN 1 ELSE 0
          IN /\ Len(nodes') = Len(nodes) + d
             /\ Len(node_rewards') = Len(node_rewards) + d
             /\ Len(parent_idx') = Len(parent_idx) + d
             /\ Len(generated_nodes') = Len(generated_nodes) + d
             /\ Len(generated_node_rewards') = Len(generated_node_rewards) + d
             /\ Len(generated_parent_idx') = Len(generated_parent_idx) + d
       /\ nodes[1] = <<Root>> /\ nodes'[1] = <<Root>>
       /\ node_rewards[1] = <<0>> /\ node_rewards'[1] = <<0>>
       /\ parent_idx[1] = <<-1>> /\ parent_idx'[1] = <<-1>>]_vars

\* C8 witness: two calls have returned and the level of the first is non-empty.
LevelsAreAppendOnlyWitness ==
    /\ pc = "idle"
    /\ ret = "ok"
    /\ Len(nodes) = 3
    /\ Len(nodes[2]) = 2
    /\ Len(nodes[3]) >= 1

\* C9: until the selection the tree is what it was when the call was entered,
\* and so it is after a call that get_actions or reward_fn ended by raising.
FailedStepLeavesTree ==
    (\/ pc \in {"expand", "reward", "select"}
     \/ pc = "idle" /\ ret = "raised" /\ raised_in \in {"policy", "reward"})
        => Tree = entry

\* C9 witness: reward_fn raised in the second step after the successors of
\* an earlier node had been scored.
FailedStepLeavesTreeWitness ==
    /\ pc = "idle"
    /\ ret = "raised"
    /\ raised_in = "reward"
    /\ Len(nodes) = 2
    /\ i = 2
    /\ Len(successor_rewards) >= 1

\* C10: after the k-th of k step_save calls that all returned, the file holds
\* the tree as it is in memory, k + 1 levels, with the end_time read after the
\* step; and from the first checkpoint on the file always holds a tree that is
\* at most the step in flight behind the one in memory.
CheckpointFollowsTree ==
    /\ (pc = "idle" /\ clean /\ saves >= 1) =>
          /\ disk.kind = "tree"
          /\ disk.data = ProcessedData
          /\ Len(disk.data.nodes) = saves + 1
          /\ disk.data.end_time = clock
          /\ disk.data.end_time > disk.data.start_time
    /\ (clean /\ saves >= 1) =>
          /\ disk.kind = "tree"
          /\ Len(disk.data.nodes) >= Len(nodes) - 1

\* The part of C10 about the calls that return.
ReturnedSaveMatchesTree ==
    (pc = "idle" /\ clean /\ saves >= 1) =>
        /\ disk.kind = "tree"
        /\ disk.data = ProcessedData
        /\ Len(disk.data.nodes) = saves + 1
        /\ disk.data.end_time = clock
        /\ disk.data.end_time > disk.data.start_time

\* C11: a step_save call that ended by raising, in expansion, in reward
\* evaluation or in serialization, leaves the file holding exactly what the
\* last step_save that returned wrote.
FailedStepKeepsCheckpoint ==
    (pc = "idle" /\ ret = "raised" /\ saving /\ saves >= 1) => disk = saved

\* The part of C11 about expansion and reward evaluation: such a call does
\* not touch the file, which is truncated only if an earlier dump raised.
FailedSearchKeepsCheckpoint ==
    (pc = "idle" /\ ret = "raised" /\ raised_in \in {"policy", "reward", "open"})
        => (disk = saved \/ disk.kind = "truncated")

\* The five fields of the tree C12 names, as a record.
Persistent(t) ==
    [nodes |-> t.nodes, node_rewards |-> t.node_rewards,
     parent_idx |-> t.parent_idx, num_generate |-> t.num_generate,
     num_keep |-> t.num_keep]

InMemory ==
    [nodes |-> nodes, node_rewards |-> node_rewards, parent_idx |-> parent_idx,
     num_generate |-> num_generate, num_keep |-> num_keep]

Mismatch ==
    /\ resumed
    /\ \/ disk0.data.num_keep # arg_keep
       \/ disk0.data.num_generate # arg_generate

\* C13: a run that loads a file whose num_keep or num_generate differs from
\* its arguments ends with an uncaught error at once: it has made no step and
\* the file is what it was when the run began.
MismatchIsFatal ==
    Mismatch =>
        /\ dpc = "crashed"
        /\ steps = 0
        /\ pc = "idle"
        /\ ret = "none"
        /\ disk = disk0

\* C13 witness: the run stopped on a file that has its num_keep but another
\* num_generate.
MismatchIsFatalWitness ==
    /\ Mismatch
    /\ dpc = "crashed"
    /\ disk0.data.num_keep = arg_keep
    /\ disk0.data.num_generate # arg_generate

\* C14: an iteration of the search loop ends with one level more than the
\* tree had when it began, or with a failure recorded (and then the loop is
\* told to stop); step_return is called only while no failure was recorded
\* and the tree has fewer than depth levels, and otherwise the only step left
\* to the loop is its exit; and the loop, once entered, is left.
LoopTerminates ==
    /\ [][/\ (dpc \in {"step", "dump"} /\ dpc' = "loop")
             => (/\ \/ Len(nodes') = Len(entry.nodes) + 1
                    \/ failures' = failures + 1
                 /\ Len(nodes') <= Len(entry.nodes) + 1
                 /\ Len(nodes') >= Len(entry.nodes)
                 /\ (failures' = failures + 1) => ~continue_searching')
          /\ (dpc = "loop" /\ dpc' = "step")
             => (failures = 0 /\ Len(nodes) < depth)
          /\ (dpc = "loop" /\ (failures >= 1 \/ Len(nodes) >= depth))
             => (dpc' = "done")]_all_vars
    /\ (dpc = "loop") ~> (dpc = "done")

\* C14 witness: a run of depth 3 made two steps; the first added a level and
\* the second failed, and the loop was left with two levels.
LoopTerminatesWitness ==
    /\ dpc = "done"
    /\ depth = 3
    /\ steps = 2
    /\ failures = 1
    /\ Len(nodes) = 2

\* The values the attempts of the call produced, in order.
Produced ==
    LET got == SelectSeq(llm.history, LAMBDA h : h # <<>>)
    IN [k \in 1..Len(got) |-> got[k][1]]

WithinLimit(v) == v <= llm.reward_limit

\* C15: a call that returns has queried at most max_attempts times and has
\* stopped at the first value within the limit; it returns the penalty only
\* if no attempt produced a value within the limit, and otherwise returns
\* that value and has stored it as the reward of the state, also when the
\* value came from the last allowed attempt.
LlmRewardStopsAtFirstGood ==
    (llm.pc = "done" /\ ~llm.raised) =>
        /\ Len(Produced) <= llm.max_attempts
        /\ \A k \in 1..(Len(Produced) - 1) : ~WithinLimit(Produced[k])
        /\ IF \E k \in 1..Len(Produced) : WithinLimit(Produced[k])
             THEN /\ llm.ret = <<Last(Produced)>>
                  /\ llm.reward = llm.ret
             ELSE llm.ret = <<Penalty>>

\* C15 when the value within the limit comes before the last allowed attempt.
LlmRewardBeforeLastAttempt ==
    (llm.pc = "done" /\ ~llm.raised /\ Len(Produced) < llm.max_attempts)
        => /\ WithinLimit(Last(Produced))
           /\ \A k \in 1..(Len(Produced) - 1) : ~WithinLimit(Produced[k])
           /\ llm.ret = <<Last(Produced)>>
           /\ llm.reward = llm.ret
           /\ "llm-reward" \in llm.info

\* C16: when every attempt of the call raised, the call has not let the
\* exception out: it returned the penalty value, and the info of the state
\* records the failure.
LlmRewardAbsorbsFailures ==
    (/\ llm.pc = "done"
     /\ llm.history # <<>>
     /\ \A k \in 1..Len(llm.history) : llm.history[k] = <<>>)
        => /\ ~llm.raised
           /\ llm.ret = <<Penalty>>
           /\ llm.reward = <<Penalty>>
           /\ llm.info # {}

\* ------------------------------------------------------------------
\* The reward the aggregation is said to return: per candidate the term
\* computed from the valid structures only, the penalty value for a
\* candidate none of whose structures is valid, and the mean of these over
\* candidates_list.
RECURSIVE StructureValues(_, _)
StructureValues(rv, ts) ==
    IF ts = <<>> THEN rv
    ELSE StructureValues(StructureStore(rv, Head(ts)), Tail(ts))

IsValid(t) == t.valid

ValidValues == StructureValues(<<>>, SelectSeq(agg.input, IsValid))

Contribution(cand) ==
    IF cand \in DOMAIN ValidValues
    THEN CandidateMean(ValidValues[cand], agg.ads_preferences).value
    ELSE <<PenaltyValue, 1>>

ClaimedReward ==
    NpMean([j \in 1..Len(agg.candidates_list) |->
               Contribution(agg.candidates_list[j])])

\* C17: an aggregation over a non-empty candidates_list ends by returning a
\* scalar, and the scalar is the mean over the candidates of the term of the
\* candidate's valid structures, with the penalty value in the place of
\* every candidate that has no valid structure.
AggregationPenalizesInvalid ==
    (agg.pc = "done" /\ agg.candidates_list # <<>>) =>
        /\ agg.out.kind = "value"
        /\ agg.impl = "structure" =>
               RatEq(agg.out.value, ClaimedReward.value)

\* What does hold for StructureReward: when every structure is valid and
\* every candidate has one, the returned scalar is the mean of the
\* candidates' terms.
StructureRewardOfValidResults ==
    (/\ agg.pc = "done"
     /\ agg.impl = "structure"
     /\ agg.candidates_list # <<>>
     /\ \A j \in 1..Len(agg.input) : agg.input[j].valid
     /\ \A j \in 1..Len(agg.candidates_list) :
            agg.candidates_list[j] \in DOMAIN ValidValues) =>
        /\ agg.out.kind = "value"
        /\ RatEq(agg.out.value, ClaimedReward.value)

\* What does hold for PathReward.parse_adsorption_energies: it never
\* returns a scalar.
PathRewardReturnsNoScalar ==
    (agg.pc = "done" /\ agg.impl = "path") => agg.out.kind # "value"

\* ------------------------------------------------------------------
\* The results of the call that returned which are about the adslab key.
ResultsOf(key) ==
    {r \in 1..Len(sim.results) :
        sim.results[r][1] = key[2] /\ sim.results[r][2] = key[1]}

\* C18: a call of create_batches_and_calculate passes no structure whose
\* result was on disk when the call started to calculate_batch, returns for
\* each such structure of its input the energy of the structure's first
\* computation, and calls calculate_batch zero times when every structure
\* of its input is cached.
CacheIsReused ==
    /\ sim.passed \cap sim.cached0 = {}
    /\ sim.pc = "returned" =>
           \A j \in 1..Len(sim.adslabs) :
               sim.adslabs[j] \in sim.cached0 =>
                   /\ ResultsOf(sim.adslabs[j]) # {}
                   /\ \A r \in ResultsOf(sim.adslabs[j]) :
                          sim.results[r][3] = sim.first[sim.adslabs[j]]
    /\ (/\ sim.pc = "returned"
        /\ \A j \in 1..Len(sim.adslabs) : sim.adslabs[j] \in sim.cached0) =>
           sim.calls = 0

\* A second call returned, on two structures that were both cached.
CacheIsReusedWitness ==
    /\ sim.pc = "returned"
    /\ sim.run = MaxReruns
    /\ Len(sim.adslabs) = MaxStructures
    /\ \A j \in 1..Len(sim.adslabs) : sim.adslabs[j] \in sim.cached0
    /\ Len(sim.results) = MaxStructures
    /\ sim.calls = 0

\* ------------------------------------------------------------------
PositiveIdx == {j \in 0..(Len(pol.priors) - 1) : pol.priors[j + 1] > 0}

\* C19: a call of get_actions for a state none of whose actions has a
\* positive prior returns, and returns the empty action list.
NoPositivePriorGivesNoActions ==
    (pol.pc = "done" /\ PositiveIdx = {}) =>
        /\ pol.out = "returned"
        /\ pol.ret_actions = <<>>

\* What does hold: the call without a positive prior ends by raising.
NoPositivePriorRaises ==
    (pol.pc = "done") => (pol.out = "raised" <=> PositiveIdx = {})

\* C20: when the loop over the actions has ended, the trial states are those
\* of the actions with a positive prior, in order; when get_actions has
\* returned, the similarity scores sit at the positions of these actions and
\* 0 elsewhere, every action with prior 0 has final prior 0, and the
\* returned priors are as many as the returned actions, which are the
\* policy's actions in their order.
TrialsForPositivePriors ==
    /\ pol.i = Len(pol.actions) =>
           /\ {pol.idx_trial_states[t] : t \in 1..Len(pol.idx_trial_states)}
                  = PositiveIdx
           /\ \A t \in 1..Len(pol.idx_trial_states) :
                  /\ pol.trial_states[t]
                         = <<pol.actions[pol.idx_trial_states[t] + 1], "trial">>
                  /\ \A u \in 1..(t - 1) :
                         pol.idx_trial_states[u] < pol.idx_trial_states[t]
           /\ Len(pol.trial_states) = Len(pol.idx_trial_states)
    /\ pol.out = "returned" =>
           /\ \A t \in 1..Len(pol.idx_trial_states) :
                  pol.full_sim_scores[pol.idx_trial_states[t] + 1]
                      = pol.sim_scores[t]
           /\ \A j \in 1..Len(pol.priors) :
                  /\ (j - 1) \notin PositiveIdx => pol.full_sim_scores[j] = 0
                  /\ pol.priors[j] = 0 <=> pol.ret_priors[j][1] = 0
                  /\ pol.ret_priors[j][2] > 0
           /\ Len(pol.ret_priors) = Len(pol.ret_actions)
           /\ pol.ret_actions = pol.actions

\* get_actions returned for actions of which the first has prior 0, the
\* second a positive prior and a similarity score that is not 0.
TrialsForPositivePriorsWitness ==
    /\ pol.out = "returned"
    /\ Len(pol.priors) >= 2
    /\ pol.priors[1] = 0
    /\ pol.priors[2] > 0
    /\ pol.sim_scores[1] = MaxSimilarity

\* ------------------------------------------------------------------
\* 0 <= f <= 1 for the fraction f
InUnit(f) == 0 <= f[1] /\ f[1] <= f[2]

\* C21: the fitted range of the normalizer covers every reward get_actions
\* was called with so far, so each of them is transformed into [0, 1].
NormalizerCoversObserved ==
    \A r \in norm.seen :
        /\ norm.data_min <= r
        /\ r <= norm.data_max
        /\ InUnit(MinMaxTransform(r))

\* What does hold: get_actions leaves the fitted range as it finds it.
GetActionsKeepsRange ==
    [][(norm'.seen # norm.seen \/ norm'.last # norm.last) =>
           /\ norm'.data_min = norm.data_min
           /\ norm'.data_max = norm.data_max]_all_vars

\* ------------------------------------------------------------------
\* C23: a read of candidates returns the empty list while answer is None and
\* the parsed list of the current answer otherwise, whatever calls of query,
\* send_query and query_adsorption_energy_list came before, and it leaves
\* the state's fields as they were.
CandidatesFollowAnswer ==
    qs.last.op = "candidates" =>
        /\ qs.last.value =
               IF qs.answer = <<>> THEN <<>>
               ELSE ParseAnswer(qs.answer[1], qs.num_answers)
        /\ QaFields = qs.last.before

\* candidates was read after a query_adsorption_energy_list call that
\* re-queried, on an answer with two candidates.
CandidatesFollowAnswerWitness ==
    /\ qs.last.op = "candidates"
    /\ qs.requeries > 0
    /\ qs.num_queries > 1
    /\ qs.last.value = << <<"Pt">>, <<"Cu">> >>

AllErrors(tries) == \A k \in 1..Len(tries) : tries[k] = "error"

\* C27: query_adsorption_energy_list makes at most 3 attempts; it returns
\* at the first attempt that gives a value, the value being computed from
\* the candidates of the answer the state holds; it has re-queried once
\* after each failed attempt; and it raises a parsing error only after 3
\* failed attempts, the error being the last one.
EnergyListTriesThrice ==
    /\ qs.retries <= QueryRetries
    /\ Len(qs.tries) = qs.retries
    /\ qs.pc = "while" => (AllErrors(qs.tries) /\ qs.requeries = qs.retries)
    /\ qs.pc = "returned" =>
           /\ qs.tries[qs.retries] = "value"
           /\ AllErrors(SubSeq(qs.tries, 1, qs.retries - 1))
           /\ qs.requeries = qs.retries - 1
           /\ qs.value_from =
                  IF qs.answer = <<>> THEN <<>>
                  ELSE ParseAnswer(qs.answer[1], qs.num_answers)
    /\ (qs.pc = "raised" /\ qs.raised # <<0>>) =>
           /\ qs.retries = QueryRetries
           /\ AllErrors(qs.tries)
           /\ qs.requeries = QueryRetries
           /\ qs.raised = <<QueryRetries>>

\* The third attempt returned a value, after two failed attempts and two
\* new answers.
EnergyListTriesThriceWitness ==
    /\ qs.pc = "returned"
    /\ qs.retries = QueryRetries
    /\ qs.requeries = QueryRetries - 1
    /\ qs.value_from = << <<"Pt">> >>

\* ------------------------------------------------------------------
\* the lists an object holds
ListsOf(o) == {qs.objs[o][f] : f \in ListFields}

\* every object that was there before the last operation, but o, is as it was
OthersUnchanged(o) ==
    \A u \in 1..Len(qs.last.before) :
        u # o => Deep(qs, u) = qs.last.before[u]

\* C22: return_next leaves every object that existed as it was, the
\* originating state included; the successor has answer None, num_queries 0
\* and the originating state's candidates as prev_candidate_list; no two
\* objects hold the same list, and an append to a list field of one object
\* leaves every other object, parent and siblings included, as it was.
ReturnNextIsIndependent ==
    /\ \A o, u \in 1..Len(qs.objs) : o # u => ListsOf(o) \cap ListsOf(u) = {}
    /\ qs.last.op = "return_next" =>
           /\ OthersUnchanged(0)
           /\ qs.objs[qs.last.new].answer = <<>>
           /\ qs.objs[qs.last.new].num_queries = 0
           /\ Deep(qs, qs.last.new).prev_candidate_list =
                  IF qs.last.before[qs.last.obj].answer = <<>> THEN <<>>
                  ELSE ParseAnswer(qs.last.before[qs.last.obj].answer[1],
                                   qs.last.before[qs.last.obj].num_answers)
    /\ qs.last.op = "mutate" => OthersUnchanged(qs.last.obj)

\* A list of a successor was appended to; its parent had been queried and
\* has a second successor.
ReturnNextIsIndependentWitness ==
    /\ qs.last.op = "mutate"
    /\ qs.made[qs.last.obj][1] = "return_next"
    /\ \E u \in 1..Len(qs.objs) :
           /\ u # qs.last.obj
           /\ qs.made[u] = qs.made[qs.last.obj]
    /\ qs.objs[qs.made[qs.last.obj][2]].num_queries > 0

\* C29: the state copy() returns equals the original in every constructor
\* field.
CopyEqualsOriginal ==
    qs.last.op = "copy" =>
        Deep(qs, qs.last.new) = qs.last.before[qs.last.obj]

\* What does hold: the copy equals the original in every field but
\* num_answers, which is the default, and it shares no list with it.
CopyEqualsOriginalButNumAnswers ==
    qs.last.op = "copy" =>
        /\ [Deep(qs, qs.last.new) EXCEPT !.num_answers = 0]
               = [qs.last.before[qs.last.obj] EXCEPT !.num_answers = 0]
        /\ Deep(qs, qs.last.new).num_answers = NumAnswers
        /\ ListsOf(qs.last.new) \cap ListsOf(qs.last.obj) = {}

RunQueryCallEnds ==
    (rq.pc = "call" /\ rq.impl = "run_query")
        ~> (rq.pc \in {"returned", "raised"})

RunQueryStopsAtMaxTime ==
    (rq.impl = "run_query" /\ rq.pc = "call") =>
        /\ rq.elapsed <= MaxTime
        /\ rq.tries < MaxTime

\* ------------------------------------------------------------------
\* the program ended
ItemsEnded == items.pc \in {"done", "crashed"}

\* C25: a failure while item i is processed, in whatever stage, is caught
\* and logged, and the items after i are processed all the same.
ItemFailureIsContained ==
    \A f \in items.failed :
        /\ f[1] \in items.logged
        /\ ItemsEnded => (f[1] + 1)..items.num_items \subseteq items.started

\* What does hold: in run_icml_queries.py a failure of a search step is
\* logged and the items after it are processed, unless a later item fails
\* outside the try statement.
StepFailureIsContained ==
    \A f \in items.failed :
        (items.impl = "run_icml" /\ f[2] = "step") =>
            /\ f[1] \in items.logged
            /\ items.pc = "done" =>
                   (f[1] + 1)..items.num_items \subseteq items.started

\* ------------------------------------------------------------------
\* how often the call passed the adslab key to calculate_batch
TimesPassed(key) ==
    Cardinality({<<b, j>> \in (1..Len(sim.batches)) \X (1..MaxStructures) :
                    j <= Len(sim.batches[b]) /\ sim.batches[b][j] = key})

\* C26: a call of create_batches_and_calculate gives calculate_batch only
\* batches of at least one and at most batch_size structures, dispatches a
\* batch as soon as it holds batch_size structures, so that only the last
\* batch can be shorter, passes every structure of its input without a
\* cached result exactly once and no other, and returns exactly one result
\* per structure of its input, which carries the structure's index and name
\* and the energy computed or cached for that very structure.
BatchesAreExact ==
    /\ \A b \in 1..Len(sim.batches) :
           /\ Len(sim.batches[b]) >= 1
           /\ Len(sim.batches[b]) <= sim.batch_size
           /\ (b < Len(sim.batches) \/ sim.pc = "loop") =>
                  Len(sim.batches[b]) = sim.batch_size
    /\ Len(sim.adslab_batch) < sim.batch_size
    /\ sim.pc = "returned" =>
           /\ Len(sim.results) = Len(sim.adslabs)
           /\ \A j \in 1..Len(sim.adslabs) :
                  LET key == sim.adslabs[j]
                  IN  /\ TimesPassed(key) =
                             IF key \in sim.cached0 THEN 0 ELSE 1
                      /\ Cardinality(ResultsOf(key)) = 1
                      /\ \A r \in ResultsOf(key) :
                             sim.results[r][3] = sim.records[key].energy
           /\ \A key \in Keys :
                  TimesPassed(key) > 0 =>
                      \E j \in 1..Len(sim.adslabs) : sim.adslabs[j] = key

\* A call returned that dispatched one batch inside the loop and the
\* remaining batch at the end, and took one result from the cache or
\* computed them all.
BatchesAreExactWitness ==
    /\ sim.pc = "returned"
    /\ Len(sim.adslabs) = MaxStructures
    /\ Len(sim.batches) >= 1
    /\ \/ Len(sim.batches) = MaxStructures
       \/ /\ sim.run = MaxReruns
          /\ \E j \in 1..Len(sim.adslabs) : sim.adslabs[j] \in sim.cached0
          /\ Len(sim.batches[1]) < sim.batch_size

\* ------------------------------------------------------------------
\* C28: for a candidate of three symbols reduce_candidate_symbols returns
\* the symbols joined in alphabetical order, whatever the order they are
\* listed in.
ThreeSymbolsAlphabetical ==
    (sym.pc = "returned" /\ Len(sym.syms) = 3) =>
        sym.formula = Sorted(sym.syms)

\* What does hold: the formula starts with the symbol listed first and
\* goes on with the other symbols in alphabetical order.
FirstSymbolStaysFirst ==
    (sym.pc = "returned" /\ Len(sym.syms) = 3) =>
        /\ sym.formula[1] = sym.syms[1]
        /\ Tail(sym.formula) = Sorted(Tail(sym.syms))

\* ------------------------------------------------------------------
\* u1 ++ ... ++ uk of the list updates that were given and did not raise
RECURSIVE ConcatGiven(_)
ConcatGiven(given) ==
    IF given = <<>> THEN <<>>
    ELSE ConcatGiven(SubSeq(given, 1, Len(given) - 1)) \o
         (IF given[Len(given)].raised \/ given[Len(given)].kind # "list"
          THEN <<>> ELSE given[Len(given)].val)

\* C30: on a twin whose info had no status_key, after update_info calls
\* with lists info[status_key] is the concatenation of the lists given, and
\* every list the caller gave is as the caller made it; a call with an
\* update of another type than the stored one raises TypeError and leaves
\* info as it was.
InfoIsConcatenation ==
    /\ (/\ twin.start = "absent"
        /\ twin.info # <<>>
        /\ twin.objs[twin.info[1]].kind = "list") =>
           /\ twin.objs[twin.info[1]].val = ConcatGiven(twin.given)
           /\ \A j \in 1..Len(twin.given) :
                  twin.objs[twin.given[j].obj].val = twin.given[j].val
    /\ (twin.given # <<>> /\ twin.given[Len(twin.given)].raised) =>
           /\ twin.info = twin.before.info
           /\ \A j \in 1..Len(twin.before.objs) :
                  twin.objs[j] = twin.before.objs[j]

\* What does hold: a call that raises TypeError leaves info as it was, and
\* on a twin whose info holds a list under status_key the calls extend it by
\* the lists given and leave the caller's lists alone.
StoredListIsExtended ==
    /\ (twin.given # <<>> /\ twin.given[Len(twin.given)].raised) =>
           /\ twin.info = twin.before.info
           /\ \A j \in 1..Len(twin.before.objs) :
                  twin.objs[j] = twin.before.objs[j]
    /\ twin.start = "list" =>
           /\ twin.objs[twin.info[1]].val = <<"z">> \o ConcatGiven(twin.given)
           /\ \A j \in 1..Len(twin.given) :
                  twin.objs[twin.given[j].obj].val = twin.given[j].val

\* What the first call does on a twin without the key: info[status_key] is
\* the caller's list, extended by itself.
FirstUpdateIsDoubled ==
    (/\ twin.start = "absent"
     /\ Len(twin.given) = 1
     /\ twin.given[1].kind = "list") =>
        /\ twin.info = <<twin.given[1].obj>>
        /\ twin.objs[twin.info[1]].val = twin.given[1].val \o twin.given[1].val

====
